---- MODULE Spec2Model ----
(***************************************************************************)
(* Model of the three notebooks of 0-fundamentals.  A behaviour is one      *)
(* kernel session of one notebook: its cells are run one after the other,  *)
(* in any order, and the kernel keeps the notebook variables, the handles  *)
(* and the windows from one run to the next.  The cells that open the      *)
(* camera (availability check, configuration loop, timestamp-overlay loop, *)
(* recording loop), the cells that hold the imports and the image cells    *)
(* are state machines with one step per statement that changes the state   *)
(* kept here; statements that change none of it belong to the step that    *)
(* follows them.  A cell run before the import statement of a name it      *)
(* uses, or before the cell that assigns a variable it reads, ends by      *)
(* NameError.  A KeyboardInterrupt can end a cell at every statement; only *)
(* the loop of the recording cell catches it.  cv2 calls are modelled by   *)
(* their effect on the state the notebook can observe: handle state,       *)
(* frames, windows, messages.                                              *)
(***************************************************************************)
EXTENDS Integers, Sequences, FiniteSets, TLC

\* ---------------------------------------------------------------- bounds
\* At most MaxRuns runs of loop cells in one kernel session.
MaxRuns == 2
\* At most MaxFrames successful pulls in one run of a capture loop.
MaxFrames == 2
\* Explicit resize targets are drawn from (1..MaxTarget) x (1..MaxTarget).
MaxTarget == 2
\* The images the resize cell loads have sides in 1..MaxSide.
MaxSide == 2
\* At most LongRun successful pulls in a long recording.
LongRun == 47

\* ---------------------------------------------------------------- frames
\* A frame is [shape, px]: shape is the numpy shape tuple (<<H, W, 3>> for a
\* colour frame, <<H, W>> for a grayscale one), px its rows, each a sequence
\* of pixels, each pixel the tuple of its channel values (B, G, R order).
SamplePixels == { <<252, 242, 242>>, <<0, 0, 255>> }

\* None: what imread returns for a missing file and read() for a failed pull.
NoFrame == [shape |-> <<>>, px |-> <<>>]

\* A notebook variable that no cell has assigned yet.
Unbound == [shape |-> <<0>>, px |-> <<>>]

ColourFramesOf(h, w) ==
    { [shape |-> <<h, w, 3>>, px |-> p] : p \in [1..h -> [1..w -> SamplePixels]] }

\* The frame sizes <<width, height>> of the model: a square, a landscape and
\* a portrait one.
Dims == { << 1, 1 >>, << 2, 1 >>, << 1, 2 >> }

IsFrame(f) == Len(f.shape) \in {2, 3}

Height(f) == f.shape[1]
Width(f) == f.shape[2]
\* cv2 counts the channels of an array without channel axis as 1.
Channels(f) == IF Len(f.shape) = 2 THEN 1 ELSE f.shape[3]

\* cv2.cvtColor(., COLOR_BGR2GRAY) on 8-bit pixels: Y = 0.114 B + 0.587 G +
\* 0.299 R in 14-bit fixed point, rounded.
GrayOf(p) == (p[1] * 1868 + p[2] * 9617 + p[3] * 4899 + 8192) \div 16384

\* BGR2GRAY with the channel axis kept, of length 1.
BGR2GRAY_keepsAxis(f) ==
    [shape |-> <<Height(f), Width(f), 1>>,
     px |-> [i \in 1..Height(f) |-> [j \in 1..Width(f) |-> << GrayOf(f.px[i][j]) >>]]]

BGR2GRAY(f) ==
    [shape |-> <<Height(f), Width(f)>>,
     px |-> [i \in 1..Height(f) |-> [j \in 1..Width(f) |-> << GrayOf(f.px[i][j]) >>]]]

\* GRAY2BGR with the gray value in the first channel only.
GRAY2BGR_firstChannelOnly(f) ==
    [shape |-> <<Height(f), Width(f), 3>>,
     px |-> [i \in 1..Height(f) |-> [j \in 1..Width(f) |-> << f.px[i][j][1], 0, 0 >>]]]

\* cv2.cvtColor(., COLOR_GRAY2BGR): the gray value copied to B, G and R.
GRAY2BGR(f) ==
    [shape |-> <<Height(f), Width(f), 3>>,
     px |-> [i \in 1..Height(f) |->
               [j \in 1..Width(f) |-> << f.px[i][j][1], f.px[i][j][1], f.px[i][j][1] >>]]]

\* cv2.cvtColor(., COLOR_BGR2RGB): first and third channel exchanged.
BGR2RGB(f) ==
    [shape |-> f.shape,
     px |-> [i \in 1..Height(f) |->
               [j \in 1..Width(f) |-> << f.px[i][j][3], f.px[i][j][2], f.px[i][j][1] >>]]]

\* ResizeShape with dsize taken as (height, width).
ResizeShape_swapped(shape, dsize) ==
    IF Len(shape) = 3 THEN << dsize[1], dsize[2], shape[3] >>
                      ELSE << dsize[1], dsize[2] >>

\* Shape of cv2.resize(src, dsize): dsize is (width, height), the shape is
\* (height, width[, channels]).
ResizeShape(shape, dsize) ==
    IF Len(shape) = 3 THEN << dsize[2], dsize[1], shape[3] >>
                      ELSE << dsize[2], dsize[1] >>

\* The low 8 bits of a key code: k & 0xFF (255 for -1, no key pressed).
Mask8(k) == k % 256

\* ---------------------------------------------------------------- state
VARIABLES
    cell,         \* the cell being executed, or the last one executed
    pc,           \* the statement it is at
    capSt,        \* capture handle cap: "none", "open", "failed", "released"
    outSt,        \* writer handle out:  "none", "open", "failed", "released"
    cam,          \* <<width, height>> of the frames the device delivers
    ret,          \* notebook variable ret
    frame,        \* notebook variable frame
    gray_frame,   \* notebook variable gray_frame
    gray_bgr,     \* notebook variable gray_bgr
    key,          \* the value the last cv2.waitKey of this run returned
    frame_count,  \* notebook variable frame_count
    cnt,          \* calls made in this run: pulls, ok pulls, imshow, write, ...
    iter,         \* calls made since the last pull: shown, written, polls
    waitMs,       \* delay argument of the last cv2.waitKey call that returned
    windows,      \* the windows cv2 has open
    msgs,         \* the messages printed in this run
    exitWay,      \* how the loop was left, or the exception that ended the cell
    reported,     \* frame count printed by the summary, -1 before it
    session,      \* the notebook of this kernel session and its environment
    runs,         \* the number of runs of loop cells started in this kernel session
    disk,         \* the image stored in ../assets/input-images/image1.png
    imported,     \* the names the import statements executed so far have bound
    image_path,   \* notebook variable image_path, "" while unassigned
    image_bgr, image_rgb, img_cv, img_gray, img_color,   \* notebook variables
    dsize_fixed,  \* the explicit target size <<width, height>> of Method 1
    resized_fixed, resized_scaled, resized_fx,           \* shapes of the resized images
    img,          \* notebook variable img of the image display cell
    saved         \* the images passed to cv2.imwrite in this run of the display cell

camvars == << cell, pc, capSt, outSt, cam, ret, frame, gray_frame, gray_bgr, key,
              frame_count, cnt, iter, waitMs, windows, msgs, exitWay, reported >>
imgvars == << session, runs, disk, imported, image_path, image_bgr, image_rgb, img_cv,
              img_gray, img_color, dsize_fixed, resized_fixed, resized_scaled,
              resized_fx, img, saved >>
vars == << camvars, imgvars >>
\* The camera variables other than pc.
camvars_but_pc == << cell, capSt, outSt, cam, ret, frame, gray_frame, gray_bgr, key,
                     frame_count, cnt, iter, waitMs, windows, msgs, exitWay, reported >>

CameraCells == { "check", "config", "overlay", "rec" }
\* The image cells: BGR to RGB load, BGR / RGB display, image I/O, grayscale
\* conversion, HSV conversion (second notebook); load, display with key
\* handler, resize (third notebook).
ImageCells == { "loadbgr", "showrgb", "loadcv", "gray", "hsv", "load", "display",
                "resize" }
\* The first cell of the second and of the third notebook: the imports.
SetupCells == { "imports", "setup" }
\* The cell of each notebook that holds its import statements; in the first
\* notebook it is the cell that checks the camera.
ImportCells == { "check" } \cup SetupCells

\* The names the import statements of cell c bind that a statement of another
\* cell uses, in the order of the statements: cv2 everywhere, dt (datetime)
\* in the overlay loop, Image (PIL) in the image I/O cell.  numpy,
\* matplotlib.pyplot and os are used by the import cells alone, after their
\* own import statements.
Imports(c) ==
    CASE c = "check"   -> << "cv2", "dt" >>
      [] c = "imports" -> << "cv2", "Image" >>
      [] OTHER         -> << "cv2" >>
LoopCells == { "config", "overlay", "rec" }

\* Key codes cv2.waitKey can return: -1 (no key within the delay), ESC, 'q',
\* and the two with a modifier bit above the low 8.
Keys == { -1, 27, 113, 283, 369 }

\* The key that stops the loop of a cell: ord('q') or ESC.
StopCode(c) == IF c = "rec" THEN 27 ELSE 113

\* The windows one iteration of a cell's loop updates, in order.
LoopWindows(c) ==
    CASE c = "config"  -> << "Camera Feed - HD Resolution" >>
      [] c = "overlay" -> << "Camera Frame" >>
      [] c = "rec"     -> << "Live Feed (Grayscale)", "Original Feed" >>
      [] OTHER         -> << >>

\* The statements of a loop body, where an interruption can arrive.
LoopPcs(c) ==
    CASE c = "config"  -> { "read", "test", "show", "poll" }
      [] c = "overlay" -> { "loop", "read", "test", "puttext", "show", "poll" }
      [] c = "rec"     -> { "loop", "read", "test", "gray", "graybgr", "write",
                            "show", "show2", "progress", "poll" }
      [] OTHER         -> { }

NoCalls == [ pulls |-> 0, okPulls |-> 0, shows |-> 0, writes |-> 0, polls |-> 0,
             persisted |-> 0, destroys |-> 0, progress |-> 0, writerOpens |-> 0,
             capOpened |-> FALSE, capOpens |-> 0, caught |-> 0, tries |-> 0 ]
NoIter == [ shown |-> << >>, written |-> << >>, polls |-> 0 ]

\* A behaviour is a kernel session of one notebook in one environment.  The
\* cells of a notebook share its kernel: each of them can be run whenever no
\* other is running.  "camera" is the first notebook (imports and
\* availability check, configuration loop, overlay loop) with a camera;
\* "colour" the second notebook (imports, BGR to RGB, display, image I/O,
\* grayscale, HSV) with an image file of a few pixels or none; the others are
\* the third notebook (setup, load, display with key handler, resize,
\* recording): "images" with an image file of any of the sizes and no
\* camera, "record" with no image file and a camera that delivers frames to
\* the recordings made, "frames" with no image file and a camera of any of
\* the frame sizes that delivers frames to the one recording made, "long"
\* with the image file of the recorded run and a camera that delivers as
\* many frames as that run read, all of them the same picture, to the one
\* recording made, which is the one cell the user interrupts.  Where the
\* frame size is not said it is the smallest.
Sessions == { "camera", "colour", "images", "record", "frames", "long" }

\* The notebook a session is a kernel of.
Notebook(s) ==
    CASE s = "camera" -> 1
      [] s = "colour" -> 2
      [] OTHER        -> 3

\* The cells of the three notebooks.
CellsOf(n) ==
    CASE n = 1 -> { "check", "config", "overlay" }
      [] n = 2 -> { "imports", "loadbgr", "showrgb", "loadcv", "gray", "hsv" }
      [] OTHER -> { "setup", "load", "display", "resize", "rec" }

\* The number of frames the device delivers to one run at most.
FrameLimit ==
    CASE session = "long"   -> LongRun
      [] session = "images" -> 0
      [] OTHER              -> MaxFrames

\* The frame sizes <<width, height>> the device can have.
DeviceSizes == IF session \in { "camera", "frames" } THEN Dims ELSE { << 1, 1 >> }

\* Whether cv2.VideoCapture(0) can find a camera that opens.
CameraOpens == IF session = "images" THEN { FALSE } ELSE BOOLEAN

\* Size <<width, height>> of the image of the recorded run, and the explicit
\* target (300, 300) of the resize cell.
RecordedSize == << 739, 486 >>
CellTarget == << 300, 300 >>

\* The explicit targets <<width, height>> the resize cell resizes to: the one
\* of the cell, and in the session "images" other ones.
Targets ==
    IF session = "images" THEN ((1..MaxTarget) \X (1..MaxTarget)) \cup { CellTarget }
    ELSE { CellTarget }

\* The file the cells read with cv2.imread (the HSV cell reads another one).
Image1 == "../assets/input-images/image1.png"

\* cv2.imread(Image1): the image in the file, or None when there is no such
\* file.  The cells of the third notebook read its shape only: the pixels are
\* left out there, and the sizes <<width, height>> are those of sides up to
\* MaxSide and the one of the recorded run.
Imread ==
    CASE session = "colour" -> UNION { ColourFramesOf(d[2], d[1]) : d \in Dims }
                                 \cup { NoFrame }
      [] session = "images" -> { [shape |-> << d[2], d[1], 3 >>, px |-> << >>] :
                                   d \in ((1..MaxSide) \X (1..MaxSide))
                                           \cup { RecordedSize } }
                                 \cup { NoFrame }
      [] session = "long"   -> { [shape |-> << RecordedSize[2], RecordedSize[1], 3 >>,
                                  px |-> << >>] }
      [] OTHER              -> { NoFrame }

\* A fresh kernel: no cell has run, no handle and no window exists, no name
\* is imported, no notebook variable is assigned.  The image file is the same
\* during the session.
Init ==
    /\ cell = "none" /\ pc = "idle"
    /\ capSt = "none" /\ outSt = "none" /\ cam = << 0, 0 >>
    /\ ret = FALSE /\ frame = NoFrame /\ gray_frame = NoFrame /\ gray_bgr = NoFrame
    /\ key = -1 /\ frame_count = 0
    /\ cnt = NoCalls /\ iter = NoIter /\ waitMs = -1
    /\ windows = { } /\ msgs = { } /\ exitWay = "none" /\ reported = -1
    /\ session \in Sessions /\ runs = 0
    /\ disk \in Imread
    /\ imported = { }
    /\ image_path = ""
    /\ image_bgr = Unbound /\ image_rgb = Unbound /\ img_cv = Unbound
    /\ img_gray = Unbound /\ img_color = Unbound
    /\ dsize_fixed = << >>
    /\ resized_fixed = << >> /\ resized_scaled = << >> /\ resized_fx = << >>
    /\ img = Unbound /\ saved = << >>

\* ---------------------------------------------------------------- cv2 calls
\* cap = cv2.VideoCapture(0): the device opens or not.
VideoCapture(next) ==
    /\ \E ok \in CameraOpens :
         /\ IF ok THEN /\ capSt' = "open"
                       /\ \E d \in DeviceSizes : cam' = d
                  ELSE /\ capSt' = "failed"
                       /\ cam' = << 0, 0 >>
         /\ cnt' = [cnt EXCEPT !.capOpened = ok, !.capOpens = @ + 1]
    /\ pc' = next

\* cap.set(width / height): the device takes the requested size or keeps
\* another one; a handle that is not open ignores it.
CapSet ==
    IF capSt = "open" THEN \E d \in DeviceSizes : cam' = d ELSE cam' = cam

\* ret, frame = cap.read(): a frame of the device's size, or (False, None).
\* The device of the session "long" delivers one and the same picture.  A new
\* iteration starts here.
CapRead ==
    /\ \E ok \in BOOLEAN :
         /\ ok => cnt.okPulls < FrameLimit
         /\ ret' = ok
         /\ IF ~ok THEN frame' = NoFrame
            ELSE IF session = "long"
              THEN frame' = [shape |-> << cam[2], cam[1], 3 >>,
                             px |-> [i \in 1..cam[2] |->
                                       [j \in 1..cam[1] |-> << 0, 0, 255 >>]]]
              ELSE frame' \in ColourFramesOf(cam[2], cam[1])
         /\ cnt' = [cnt EXCEPT !.pulls = @ + 1,
                               !.okPulls = IF ok THEN @ + 1 ELSE @]
    /\ iter' = NoIter
    /\ pc' = "test"

\* cv2.imshow(win, f)
Imshow(win, f, next) ==
    /\ iter' = [iter EXCEPT !.shown = Append(@, << win, f >>)]
    /\ cnt' = [cnt EXCEPT !.shows = @ + 1]
    /\ windows' = windows \cup { win }
    /\ pc' = next

\* PollKey with the key code compared unmasked.
PollKey_unmasked(stop, stopMsgs, again) ==
    \E k \in Keys :
        /\ key' = k
        /\ waitMs' = 1
        /\ cnt' = [cnt EXCEPT !.polls = @ + 1]
        /\ iter' = [iter EXCEPT !.polls = @ + 1]
        /\ IF k = stop
             THEN /\ exitWay' = "stopkey"
                  /\ msgs' = msgs \cup stopMsgs
                  /\ pc' = "release"
             ELSE /\ exitWay' = exitWay
                  /\ msgs' = msgs
                  /\ pc' = again

\* if cv2.waitKey(1) & 0xFF == stop: break
PollKey(stop, stopMsgs, again) ==
    \E k \in Keys :
        /\ key' = k
        /\ waitMs' = 1
        /\ cnt' = [cnt EXCEPT !.polls = @ + 1]
        /\ iter' = [iter EXCEPT !.polls = @ + 1]
        /\ IF Mask8(k) = stop
             THEN /\ exitWay' = "stopkey"
                  /\ msgs' = msgs \cup stopMsgs
                  /\ pc' = "release"
             ELSE /\ exitWay' = exitWay
                  /\ msgs' = msgs
                  /\ pc' = again

\* cap.release()
CapRelease(next) ==
    /\ capSt' = "released"
    /\ pc' = next

\* cv2.destroyAllWindows()
DestroyAllWindows(next) ==
    /\ windows' = { }
    /\ cnt' = [cnt EXCEPT !.destroys = @ + 1]
    /\ pc' = next

\* cv2.putText(frame, text, org, ...): the frame with the text drawn in white
\* from column org[1] on; nothing is drawn on a frame narrower than that.
Overlays(f, org) ==
    IF org[1] >= Width(f)
      THEN { f }
      ELSE { [shape |-> f.shape, px |-> p] :
               p \in { q \in [1..Height(f) -> [1..Width(f) -> SamplePixels \cup {<<255, 255, 255>>}]] :
                         \A i \in 1..Height(f) : \A j \in 1..Width(f) :
                             q[i][j] \in { f.px[i][j], <<255, 255, 255>> } } }

\* ---------------------------------------------------------------- cells
\* The first statement of a cell.
FirstPc(c) ==
    CASE c \in ImportCells                          -> "import"
      [] c \in { "config", "rec" }                  -> "announce"
      [] c = "overlay"                              -> "open"
      [] c \in { "loadbgr", "loadcv", "hsv", "load" } -> "path"
      [] c = "showrgb"                              -> "bgr"
      [] c = "gray"                                 -> "convert"
      [] c = "display"                              -> "imread"
      [] OTHER                                      -> "measure"

\* A cell of the notebook is run when no other cell is running, whether the
\* imports have been executed, in part or in whole, or not.  The record of
\* the calls and messages of the run starts empty.  The kernel keeps what the
\* earlier runs left: the imported names, the handles bound to cap and out,
\* the open windows, and the notebook variables.  The loop cells are run
\* MaxRuns times in the sessions "camera" and "record", once in the others.
StartCell(c) ==
    /\ c \in CellsOf(Notebook(session))
    /\ pc \in { "idle", "done", "aborted" }
    /\ IF c \in LoopCells
         THEN /\ runs < (IF session \in { "camera", "record" } THEN MaxRuns ELSE 1)
              /\ runs' = runs + 1
         ELSE runs' = runs
    /\ cell' = c /\ pc' = FirstPc(c)
    /\ key' = -1
    /\ cnt' = NoCalls /\ iter' = NoIter /\ waitMs' = -1
    /\ msgs' = { } /\ exitWay' = "none" /\ reported' = -1
    /\ saved' = << >>
    /\ UNCHANGED << windows, capSt, outSt, cam, ret, frame, gray_frame, gray_bgr,
                    frame_count >>
    /\ UNCHANGED << session, disk, imported, image_path, image_bgr, image_rgb, img_cv,
                    img_gray, img_color, dsize_fixed, resized_fixed, resized_scaled,
                    resized_fx, img >>

At(c, p) == cell = c /\ pc = p

\* An exception that no handler catches ends the cell at the statement that
\* raises it: NameError for a name no cell has bound (cv2, dt or Image before
\* its import statement, a notebook variable before the cell that assigns
\* it), cv2.error, FileNotFoundError.
Raise(e) == exitWay' = e /\ pc' = "aborted"

\* What the loop of cell c has done when a KeyboardInterrupt is raised in it.
\* The interpreter raises it between two statements, or when a call that was
\* executing returns: cap.read() has made its pull and its result is not
\* assigned; cv2.waitKey(1) has returned its key and the loop is left by the
\* exception, before the test of the key or after the print that precedes
\* break; the message of a failed pull is printed and break not reached.
\* eofMsg is the message of a failed pull, stopMsgs what the cell prints on
\* its stop key, caught is 1 where the loop is in a try statement whose
\* except clause catches the exception, else 0.
Interrupted(c, eofMsg, stopMsgs, caught) ==
    \/ /\ cnt' = [cnt EXCEPT !.caught = @ + caught]
       /\ UNCHANGED << key, iter, waitMs, msgs >>
    \/ /\ pc = "read"
       /\ \E ok \in BOOLEAN :
            /\ ok => cnt.okPulls < FrameLimit
            /\ cnt' = [cnt EXCEPT !.pulls = @ + 1,
                                  !.okPulls = IF ok THEN @ + 1 ELSE @,
                                  !.caught = @ + caught]
       /\ iter' = NoIter
       /\ UNCHANGED << key, waitMs, msgs >>
    \/ /\ pc = "test" /\ ~ret
       /\ msgs' = msgs \cup { eofMsg }
       /\ cnt' = [cnt EXCEPT !.caught = @ + caught]
       /\ UNCHANGED << key, iter, waitMs >>
    \/ /\ pc = "poll"
       /\ \E k \in Keys :
            /\ key' = k
            /\ \/ msgs' = msgs
               \/ /\ Mask8(k) = StopCode(c)
                  /\ msgs' = msgs \cup stopMsgs
       /\ waitMs' = 1
       /\ cnt' = [cnt EXCEPT !.polls = @ + 1, !.caught = @ + caught]
       /\ iter' = [iter EXCEPT !.polls = @ + 1]

\* A print, or statements up to a print that change nothing else the notebook
\* observes, of cell c at p
Report(c, p, msg, next) ==
    /\ At(c, p)
    /\ msgs' = msgs \cup { msg }
    /\ pc' = next
    /\ UNCHANGED << cell, capSt, outSt, cam, ret, frame, gray_frame,
                    gray_bgr, key, frame_count, cnt, iter, waitMs, windows,
                    exitWay, reported >>
    /\ UNCHANGED imgvars

\* The import statement of cell c that binds its n-th name, with the import
\* statements before it that bind names no other cell uses.
Import(c, p, n, next) ==
    /\ At(c, p)
    /\ imported' = imported \cup { Imports(c)[n] }
    /\ pc' = next
    /\ UNCHANGED camvars_but_pc
    /\ UNCHANGED << session, runs, disk, image_path, image_bgr, image_rgb,
                    img_cv, img_gray, img_color, dsize_fixed, resized_fixed,
                    resized_scaled, resized_fx, img, saved >>

\* ---- imports and camera availability check (first cell of the first notebook)
\* import cv2
CheckImport == Import("check", "import", 1, "import2")

\* import numpy as np; import matplotlib.pyplot as plt; import datetime as dt
CheckImportDt == Import("check", "import2", 2, "report")

\* import os; the prints of the versions, os.makedirs of the output
\* directory, the print
CheckReport == Report("check", "report", "camera parameters setup completed", "open")

\* the matplotlib settings; cap = cv2.VideoCapture(0), after the import of
\* cv2 by the same cell
CheckOpen ==
    /\ At("check", "open")
    /\ VideoCapture("branch")
    /\ UNCHANGED << cell, outSt, ret, frame, gray_frame, gray_bgr, key,
                    frame_count, iter, waitMs, windows, msgs, exitWay,
                    reported >>
    /\ UNCHANGED imgvars

\* if cap.isOpened(): print  else: print
CheckBranch ==
    /\ At("check", "branch")
    /\ IF capSt = "open"
         THEN /\ msgs' = msgs \cup { "camera detected" }
              /\ pc' = "release"
         ELSE /\ msgs' = msgs \cup { "no camera detected" }
              /\ pc' = "done"
    /\ UNCHANGED << cell, capSt, outSt, cam, ret, frame, gray_frame,
                    gray_bgr, key, frame_count, cnt, iter, waitMs, windows,
                    exitWay, reported >>
    /\ UNCHANGED imgvars

\* cap.release()
CheckRelease ==
    /\ At("check", "release")
    /\ CapRelease("done")
    /\ UNCHANGED << cell, outSt, cam, ret, frame, gray_frame, gray_bgr, key,
                    frame_count, cnt, iter, waitMs, windows, msgs, exitWay,
                    reported >>
    /\ UNCHANGED imgvars

\* ---- configuration cell
\* print("Camera Property Configuration")
ConfigAnnounce == Report("config", "announce", "camera property configuration", "open")

\* cap = cv2.VideoCapture(0): NameError where the kernel has not executed
\* import cv2.
ConfigOpen ==
    /\ At("config", "open")
    /\ IF "cv2" \in imported
         THEN /\ VideoCapture("branch")
              /\ exitWay' = exitWay
         ELSE /\ Raise("NameError")
              /\ UNCHANGED << capSt, cam, cnt >>
    /\ UNCHANGED << cell, outSt, ret, frame, gray_frame, gray_bgr, key,
                    frame_count, iter, waitMs, windows, msgs, reported >>
    /\ UNCHANGED imgvars

\* if cap.isOpened(): print("=== Current Camera Properties ===")
\* else: the prints of the sample properties
ConfigBranch ==
    /\ At("config", "branch")
    /\ IF capSt = "open"
         THEN /\ msgs' = msgs \cup { "camera properties" }
              /\ pc' = "setw"
         ELSE /\ msgs' = msgs \cup { "camera not accessible" }
              /\ pc' = "final"
    /\ UNCHANGED << cell, capSt, outSt, cam, ret, frame, gray_frame,
                    gray_bgr, key, frame_count, cnt, iter, waitMs, windows,
                    exitWay, reported >>
    /\ UNCHANGED imgvars

\* the reads and prints of the properties; cap.set(cv2.CAP_PROP_FRAME_WIDTH,
\* 1280)
ConfigSetWidth ==
    /\ At("config", "setw")
    /\ CapSet
    /\ pc' = "seth"
    /\ UNCHANGED << cell, capSt, outSt, ret, frame, gray_frame, gray_bgr,
                    key, frame_count, cnt, iter, waitMs, windows, msgs,
                    exitWay, reported >>
    /\ UNCHANGED imgvars

\* cap.set(cv2.CAP_PROP_FRAME_HEIGHT, 720)
ConfigSetHeight ==
    /\ At("config", "seth")
    /\ CapSet
    /\ pc' = "prompt"
    /\ UNCHANGED << cell, capSt, outSt, ret, frame, gray_frame, gray_bgr,
                    key, frame_count, cnt, iter, waitMs, windows, msgs,
                    exitWay, reported >>
    /\ UNCHANGED imgvars

\* the reads and the print of the new size; print("Press 'q' to quit camera
\* feed...")
ConfigPrompt == Report("config", "prompt", "press q to quit", "read")

ConfigRead ==
    /\ At("config", "read")
    /\ CapRead
    /\ UNCHANGED << cell, capSt, outSt, cam, gray_frame, gray_bgr, key,
                    frame_count, waitMs, windows, msgs, exitWay, reported >>
    /\ UNCHANGED imgvars

\* ConfigTest with the failed pull retried: continue in place of break.
ConfigTest_retry ==
    /\ At("config", "test")
    /\ IF ret
         THEN /\ pc' = "show"
              /\ UNCHANGED << msgs, exitWay >>
         ELSE /\ msgs' = msgs \cup { "failed to capture frame" }
              /\ exitWay' = exitWay
              /\ pc' = "read"
    /\ UNCHANGED << cell, capSt, outSt, cam, ret, frame, gray_frame,
                    gray_bgr, key, frame_count, cnt, iter, waitMs, windows,
                    reported >>
    /\ UNCHANGED imgvars

\* if ret: ... else: print, break
ConfigTest ==
    /\ At("config", "test")
    /\ IF ret
         THEN /\ pc' = "show"
              /\ UNCHANGED << msgs, exitWay >>
         ELSE /\ msgs' = msgs \cup { "failed to capture frame" }
              /\ exitWay' = "eof"
              /\ pc' = "release"
    /\ UNCHANGED << cell, capSt, outSt, cam, ret, frame, gray_frame,
                    gray_bgr, key, frame_count, cnt, iter, waitMs, windows,
                    reported >>
    /\ UNCHANGED imgvars

ConfigShow ==
    /\ At("config", "show")
    /\ Imshow("Camera Feed - HD Resolution", frame, "poll")
    /\ UNCHANGED << cell, capSt, outSt, cam, ret, frame, gray_frame,
                    gray_bgr, key, frame_count, waitMs, msgs, exitWay,
                    reported >>
    /\ UNCHANGED imgvars

ConfigPoll ==
    /\ At("config", "poll")
    /\ PollKey(StopCode("config"), { }, "read")
    /\ UNCHANGED << cell, capSt, outSt, cam, ret, frame, gray_frame,
                    gray_bgr, frame_count, windows, reported >>
    /\ UNCHANGED imgvars

ConfigRelease ==
    /\ At("config", "release")
    /\ CapRelease("destroy")
    /\ UNCHANGED << cell, outSt, cam, ret, frame, gray_frame, gray_bgr, key,
                    frame_count, cnt, iter, waitMs, windows, msgs, exitWay,
                    reported >>
    /\ UNCHANGED imgvars

ConfigDestroy ==
    /\ At("config", "destroy")
    /\ DestroyAllWindows("final")
    /\ UNCHANGED << cell, capSt, outSt, cam, ret, frame, gray_frame,
                    gray_bgr, key, frame_count, iter, waitMs, msgs, exitWay,
                    reported >>
    /\ UNCHANGED imgvars

\* print("Camera configuration completed")
ConfigFinal == Report("config", "final", "camera configuration completed", "done")

\* An interruption (KeyboardInterrupt) inside the loop: the cell has no
\* handler, the exception ends the cell where it is.
ConfigInterrupt ==
    /\ cell = "config" /\ pc \in LoopPcs("config")
    /\ Interrupted("config", "failed to capture frame", { }, 0)
    /\ exitWay' = "interrupt"
    /\ pc' = "aborted"
    /\ UNCHANGED << cell, capSt, outSt, cam, ret, frame, gray_frame,
                    gray_bgr, frame_count, windows, reported >>
    /\ UNCHANGED imgvars

\* ---- timestamp-overlay cell
\* cap = cv2.VideoCapture(0); cap.set(3, 1280); cap.set(4, 720): NameError
\* where the kernel has not executed import cv2.  The device has any of its
\* sizes after the open and after each cap.set.
OverlayOpen ==
    /\ At("overlay", "open")
    /\ IF "cv2" \in imported
         THEN /\ VideoCapture("loop")
              /\ exitWay' = exitWay
         ELSE /\ Raise("NameError")
              /\ UNCHANGED << capSt, cam, cnt >>
    /\ UNCHANGED << cell, outSt, ret, frame, gray_frame, gray_bgr, key,
                    frame_count, iter, waitMs, windows, msgs, reported >>
    /\ UNCHANGED imgvars

\* OverlayLoop with "while True:" in place of the test of the handle.
OverlayLoop_whileTrue ==
    /\ At("overlay", "loop")
    /\ pc' = "read"
    /\ exitWay' = exitWay
    /\ UNCHANGED << cell, capSt, outSt, cam, ret, frame, gray_frame,
                    gray_bgr, key, frame_count, cnt, iter, waitMs, windows,
                    msgs, reported >>
    /\ UNCHANGED imgvars

\* while(cap.isOpened()):
OverlayLoop ==
    /\ At("overlay", "loop")
    /\ IF capSt = "open"
         THEN /\ pc' = "read"
              /\ exitWay' = exitWay
         ELSE /\ pc' = "release"
              /\ exitWay' = "closed"
    /\ UNCHANGED << cell, capSt, outSt, cam, ret, frame, gray_frame,
                    gray_bgr, key, frame_count, cnt, iter, waitMs, windows,
                    msgs, reported >>
    /\ UNCHANGED imgvars

OverlayRead ==
    /\ At("overlay", "read")
    /\ CapRead
    /\ UNCHANGED << cell, capSt, outSt, cam, gray_frame, gray_bgr, key,
                    frame_count, waitMs, windows, msgs, exitWay, reported >>
    /\ UNCHANGED imgvars

\* if ret == True: ... else: print, break
OverlayTest ==
    /\ At("overlay", "test")
    /\ IF ret
         THEN /\ pc' = "puttext"
              /\ UNCHANGED << msgs, exitWay >>
         ELSE /\ msgs' = msgs \cup { "failed to capture image" }
              /\ exitWay' = "eof"
              /\ pc' = "release"
    /\ UNCHANGED << cell, capSt, outSt, cam, ret, frame, gray_frame,
                    gray_bgr, key, frame_count, cnt, iter, waitMs, windows,
                    reported >>
    /\ UNCHANGED imgvars

\* font, text; datetime_str = dt.datetime.now().strftime(...): NameError where
\* the kernel has not executed import datetime as dt; the two cv2.putText
\* calls, at (20, 30) and (20, 80)
OverlayPutText ==
    /\ At("overlay", "puttext")
    /\ IF "dt" \in imported
         THEN /\ \E g \in Overlays(frame, << 20, 30 >>) :
                    frame' \in Overlays(g, << 20, 80 >>)
              /\ pc' = "show"
              /\ exitWay' = exitWay
         ELSE /\ Raise("NameError")
              /\ frame' = frame
    /\ UNCHANGED << cell, capSt, outSt, cam, ret, gray_frame, gray_bgr, key,
                    frame_count, cnt, iter, waitMs, windows, msgs, reported >>
    /\ UNCHANGED imgvars

OverlayShow ==
    /\ At("overlay", "show")
    /\ Imshow("Camera Frame", frame, "poll")
    /\ UNCHANGED << cell, capSt, outSt, cam, ret, frame, gray_frame,
                    gray_bgr, key, frame_count, waitMs, msgs, exitWay,
                    reported >>
    /\ UNCHANGED imgvars

OverlayPoll ==
    /\ At("overlay", "poll")
    /\ PollKey(StopCode("overlay"), { }, "loop")
    /\ UNCHANGED << cell, capSt, outSt, cam, ret, frame, gray_frame,
                    gray_bgr, frame_count, windows, reported >>
    /\ UNCHANGED imgvars

OverlayRelease ==
    /\ At("overlay", "release")
    /\ CapRelease("destroy")
    /\ UNCHANGED << cell, outSt, cam, ret, frame, gray_frame, gray_bgr, key,
                    frame_count, cnt, iter, waitMs, windows, msgs, exitWay,
                    reported >>
    /\ UNCHANGED imgvars

OverlayDestroy ==
    /\ At("overlay", "destroy")
    /\ DestroyAllWindows("done")
    /\ UNCHANGED << cell, capSt, outSt, cam, ret, frame, gray_frame,
                    gray_bgr, key, frame_count, iter, waitMs, msgs, exitWay,
                    reported >>
    /\ UNCHANGED imgvars

\* An interruption inside the loop: no handler, the cell ends where it is.
OverlayInterrupt ==
    /\ cell = "overlay" /\ pc \in LoopPcs("overlay")
    /\ Interrupted("overlay", "failed to capture image", { }, 0)
    /\ exitWay' = "interrupt"
    /\ pc' = "aborted"
    /\ UNCHANGED << cell, capSt, outSt, cam, ret, frame, gray_frame,
                    gray_bgr, frame_count, windows, reported >>
    /\ UNCHANGED imgvars

\* ---- recording cell
\* print("Setting up video capture...")
RecAnnounce == Report("rec", "announce", "setting up video capture", "open")

\* cap = cv2.VideoCapture(0): NameError where the kernel has not executed
\* import cv2.
RecOpen ==
    /\ At("rec", "open")
    /\ IF "cv2" \in imported
         THEN /\ VideoCapture("branch")
              /\ exitWay' = exitWay
         ELSE /\ Raise("NameError")
              /\ UNCHANGED << capSt, cam, cnt >>
    /\ UNCHANGED << cell, outSt, ret, frame, gray_frame, gray_bgr, key,
                    frame_count, iter, waitMs, windows, msgs, reported >>
    /\ UNCHANGED imgvars

\* RecBranch with the cleanup outside the else branch: run when the open failed as well.
RecBranch_cleanupAlways ==
    /\ At("rec", "branch")
    /\ IF capSt # "open"
         THEN /\ msgs' = msgs \cup { "could not open camera" }
              /\ pc' = "release"
         ELSE /\ msgs' = msgs \cup { "camera opened" }
              /\ pc' = "props"
    /\ UNCHANGED << cell, capSt, outSt, cam, ret, frame, gray_frame,
                    gray_bgr, key, frame_count, cnt, iter, waitMs, windows,
                    exitWay, reported >>
    /\ UNCHANGED imgvars

\* if not cap.isOpened(): the two prints of the error
\* else: print("Camera opened successfully")
RecBranch ==
    /\ At("rec", "branch")
    /\ IF capSt # "open"
         THEN /\ msgs' = msgs \cup { "could not open camera" }
              /\ pc' = "done"
         ELSE /\ msgs' = msgs \cup { "camera opened" }
              /\ pc' = "props"
    /\ UNCHANGED << cell, capSt, outSt, cam, ret, frame, gray_frame,
                    gray_bgr, key, frame_count, cnt, iter, waitMs, windows,
                    exitWay, reported >>
    /\ UNCHANGED imgvars

\* the reads of width, height and fps; the prints of the camera properties
RecProps == Report("rec", "props", "camera properties", "writer")

\* fourcc, output_path; out = cv2.VideoWriter(output_path, fourcc, 20.0,
\* (width, height))
RecWriter ==
    /\ At("rec", "writer")
    /\ \E ok \in BOOLEAN : outSt' = IF ok THEN "open" ELSE "failed"
    /\ cnt' = [cnt EXCEPT !.writerOpens = @ + 1]
    /\ pc' = "wreport"
    /\ UNCHANGED << cell, capSt, cam, ret, frame, gray_frame, gray_bgr, key,
                    frame_count, iter, waitMs, windows, msgs, exitWay,
                    reported >>
    /\ UNCHANGED imgvars

\* RecWriterReport with the loop skipped when the writer did not open.
RecWriterReport_requiresWriter ==
    /\ At("rec", "wreport")
    /\ IF outSt = "open"
         THEN /\ msgs' = msgs \cup { "video writer initialized" }
              /\ pc' = "start"
         ELSE /\ msgs' = msgs \cup { "failed to initialize video writer" }
              /\ pc' = "release"
    /\ UNCHANGED << cell, capSt, outSt, cam, ret, frame, gray_frame,
                    gray_bgr, key, frame_count, cnt, iter, waitMs, windows,
                    exitWay, reported >>
    /\ UNCHANGED imgvars

\* if out.isOpened(): print  else: the two prints of the failure
RecWriterReport ==
    /\ At("rec", "wreport")
    /\ IF outSt = "open"
         THEN msgs' = msgs \cup { "video writer initialized" }
         ELSE msgs' = msgs \cup { "failed to initialize video writer" }
    /\ pc' = "start"
    /\ UNCHANGED << cell, capSt, outSt, cam, ret, frame, gray_frame,
                    gray_bgr, key, frame_count, cnt, iter, waitMs, windows,
                    exitWay, reported >>
    /\ UNCHANGED imgvars

\* print("Starting video capture...") and the prints of the instructions
RecStart == Report("rec", "start", "starting video capture", "zero")

\* frame_count = 0; try: the try statement is entered with the assignment
\* made (the interpreter raises no KeyboardInterrupt between the two).
RecZero ==
    /\ At("rec", "zero")
    /\ frame_count' = 0
    /\ cnt' = [cnt EXCEPT !.tries = @ + 1]
    /\ pc' = "loop"
    /\ UNCHANGED << cell, capSt, outSt, cam, ret, frame, gray_frame,
                    gray_bgr, key, iter, waitMs, windows, msgs, exitWay,
                    reported >>
    /\ UNCHANGED imgvars

\* RecLoop with a frame limit: while cap.isOpened() and frame_count < 2.
RecLoop_frameLimit ==
    /\ At("rec", "loop")
    /\ IF capSt = "open" /\ frame_count < 2
         THEN /\ pc' = "read"
              /\ exitWay' = exitWay
         ELSE /\ pc' = "release"
              /\ exitWay' = "closed"
    /\ UNCHANGED << cell, capSt, outSt, cam, ret, frame, gray_frame,
                    gray_bgr, key, frame_count, cnt, iter, waitMs, windows,
                    msgs, reported >>
    /\ UNCHANGED imgvars

\* while cap.isOpened():
RecLoop ==
    /\ At("rec", "loop")
    /\ IF capSt = "open"
         THEN /\ pc' = "read"
              /\ exitWay' = exitWay
         ELSE /\ pc' = "release"
              /\ exitWay' = "closed"
    /\ UNCHANGED << cell, capSt, outSt, cam, ret, frame, gray_frame,
                    gray_bgr, key, frame_count, cnt, iter, waitMs, windows,
                    msgs, reported >>
    /\ UNCHANGED imgvars

RecRead ==
    /\ At("rec", "read")
    /\ CapRead
    /\ UNCHANGED << cell, capSt, outSt, cam, gray_frame, gray_bgr, key,
                    frame_count, waitMs, windows, msgs, exitWay, reported >>
    /\ UNCHANGED imgvars

\* RecTest with the frame counted before the result of the pull is tested.
RecTest_countsFirst ==
    /\ At("rec", "test")
    /\ frame_count' = frame_count + 1
    /\ IF ~ret
         THEN /\ msgs' = msgs \cup { "can't receive frame" }
              /\ exitWay' = "eof"
              /\ pc' = "release"
         ELSE /\ pc' = "gray"
              /\ UNCHANGED << msgs, exitWay >>
    /\ UNCHANGED << cell, capSt, outSt, cam, ret, frame, gray_frame,
                    gray_bgr, key, cnt, iter, waitMs, windows, reported >>
    /\ UNCHANGED imgvars

\* if not ret: print, break;  frame_count += 1
RecTest ==
    /\ At("rec", "test")
    /\ IF ~ret
         THEN /\ msgs' = msgs \cup { "can't receive frame" }
              /\ exitWay' = "eof"
              /\ frame_count' = frame_count
              /\ pc' = "release"
         ELSE /\ frame_count' = frame_count + 1
              /\ pc' = "gray"
              /\ UNCHANGED << msgs, exitWay >>
    /\ UNCHANGED << cell, capSt, outSt, cam, ret, frame, gray_frame,
                    gray_bgr, key, cnt, iter, waitMs, windows, reported >>
    /\ UNCHANGED imgvars

\* gray_frame = cv2.cvtColor(frame, cv2.COLOR_BGR2GRAY)
RecGray ==
    /\ At("rec", "gray")
    /\ gray_frame' = BGR2GRAY(frame)
    /\ pc' = "graybgr"
    /\ UNCHANGED << cell, capSt, outSt, cam, ret, frame, gray_bgr, key,
                    frame_count, cnt, iter, waitMs, windows, msgs, exitWay,
                    reported >>
    /\ UNCHANGED imgvars

\* gray_bgr = cv2.cvtColor(gray_frame, cv2.COLOR_GRAY2BGR)
RecGrayBgr ==
    /\ At("rec", "graybgr")
    /\ gray_bgr' = GRAY2BGR(gray_frame)
    /\ pc' = "write"
    /\ UNCHANGED << cell, capSt, outSt, cam, ret, frame, gray_frame, key,
                    frame_count, cnt, iter, waitMs, windows, msgs, exitWay,
                    reported >>
    /\ UNCHANGED imgvars

\* out.write(gray_bgr): the call is made whatever the state of the writer; a
\* writer that is not open stores nothing.
RecWrite ==
    /\ At("rec", "write")
    /\ iter' = [iter EXCEPT !.written = Append(@, gray_bgr)]
    /\ cnt' = [cnt EXCEPT !.writes = @ + 1,
                          !.persisted = IF outSt = "open" THEN @ + 1 ELSE @]
    /\ pc' = "show"
    /\ UNCHANGED << cell, capSt, outSt, cam, ret, frame, gray_frame,
                    gray_bgr, key, frame_count, waitMs, windows, msgs,
                    exitWay, reported >>
    /\ UNCHANGED imgvars

RecShowGray ==
    /\ At("rec", "show")
    /\ Imshow("Live Feed (Grayscale)", gray_frame, "show2")
    /\ UNCHANGED << cell, capSt, outSt, cam, ret, frame, gray_frame,
                    gray_bgr, key, frame_count, waitMs, msgs, exitWay,
                    reported >>
    /\ UNCHANGED imgvars

\* RecShowOriginal with the original frame sent to the grayscale window.
RecShowOriginal_sameWindow ==
    /\ At("rec", "show2")
    /\ Imshow("Live Feed (Grayscale)", frame, "progress")
    /\ UNCHANGED << cell, capSt, outSt, cam, ret, frame, gray_frame,
                    gray_bgr, key, frame_count, waitMs, msgs, exitWay,
                    reported >>
    /\ UNCHANGED imgvars

RecShowOriginal ==
    /\ At("rec", "show2")
    /\ Imshow("Original Feed", frame, "progress")
    /\ UNCHANGED << cell, capSt, outSt, cam, ret, frame, gray_frame,
                    gray_bgr, key, frame_count, waitMs, msgs, exitWay,
                    reported >>
    /\ UNCHANGED imgvars

\* RecProgress with the test "if frame_count % 30:", true off the multiples.
RecProgress_truthy ==
    /\ At("rec", "progress")
    /\ IF frame_count % 30 # 0
         THEN /\ msgs' = msgs \cup { "frames captured" }
              /\ cnt' = [cnt EXCEPT !.progress = @ + 1]
         ELSE UNCHANGED << msgs, cnt >>
    /\ pc' = "poll"
    /\ UNCHANGED << cell, capSt, outSt, cam, ret, frame, gray_frame,
                    gray_bgr, key, frame_count, iter, waitMs, windows,
                    exitWay, reported >>
    /\ UNCHANGED imgvars

\* if frame_count % 30 == 0: print the frame count
RecProgress ==
    /\ At("rec", "progress")
    /\ IF frame_count % 30 = 0
         THEN /\ msgs' = msgs \cup { "frames captured" }
              /\ cnt' = [cnt EXCEPT !.progress = @ + 1]
         ELSE UNCHANGED << msgs, cnt >>
    /\ pc' = "poll"
    /\ UNCHANGED << cell, capSt, outSt, cam, ret, frame, gray_frame,
                    gray_bgr, key, frame_count, iter, waitMs, windows,
                    exitWay, reported >>
    /\ UNCHANGED imgvars

RecPoll ==
    /\ At("rec", "poll")
    /\ PollKey(StopCode("rec"), { "recording stopped by user" }, "loop")
    /\ UNCHANGED << cell, capSt, outSt, cam, ret, frame, gray_frame,
                    gray_bgr, frame_count, windows, reported >>
    /\ UNCHANGED imgvars

\* try: while ...  except KeyboardInterrupt: an interruption anywhere in the
\* try block (the whole while loop) is caught: control passes to the except
\* clause.
RecInterrupt ==
    /\ cell = "rec" /\ pc \in LoopPcs("rec")
    /\ Interrupted("rec", "can't receive frame", { "recording stopped by user" }, 1)
    /\ exitWay' = "interrupt"
    /\ pc' = "except"
    /\ UNCHANGED << cell, capSt, outSt, cam, ret, frame, gray_frame,
                    gray_bgr, frame_count, windows, reported >>
    /\ UNCHANGED imgvars

\* the print of the except clause; the cell goes on with the cleanup, which
\* follows the try statement
RecExcept == Report("rec", "except", "recording interrupted by user", "release")

\* cap.release()
RecRelease ==
    /\ At("rec", "release")
    /\ CapRelease("outrelease")
    /\ UNCHANGED << cell, outSt, cam, ret, frame, gray_frame, gray_bgr, key,
                    frame_count, cnt, iter, waitMs, windows, msgs, exitWay,
                    reported >>
    /\ UNCHANGED imgvars

\* out.release()
RecOutRelease ==
    /\ At("rec", "outrelease")
    /\ outSt' = "released"
    /\ pc' = "destroy"
    /\ UNCHANGED << cell, capSt, cam, ret, frame, gray_frame, gray_bgr, key,
                    frame_count, cnt, iter, waitMs, windows, msgs, exitWay,
                    reported >>
    /\ UNCHANGED imgvars

RecDestroy ==
    /\ At("rec", "destroy")
    /\ DestroyAllWindows("summary")
    /\ UNCHANGED << cell, capSt, outSt, cam, ret, frame, gray_frame,
                    gray_bgr, key, frame_count, iter, waitMs, msgs, exitWay,
                    reported >>
    /\ UNCHANGED imgvars

\* print("Video capture completed!")
RecSummary == Report("rec", "summary", "video capture completed", "total")

\* print(f"Total frames captured: {frame_count}")
RecTotal ==
    /\ At("rec", "total")
    /\ reported' = frame_count
    /\ pc' = "final"
    /\ UNCHANGED << cell, capSt, outSt, cam, ret, frame, gray_frame,
                    gray_bgr, key, frame_count, cnt, iter, waitMs, windows,
                    msgs, exitWay >>
    /\ UNCHANGED imgvars

\* the print of the output path; print("All resources released successfully")
RecFinal == Report("rec", "final", "all resources released", "done")

\* ---------------------------------------------------------------- image cells
\* cv2.imshow(win, .) outside a capture loop
ShowWindow(win, next) ==
    /\ windows' = windows \cup { win }
    /\ cnt' = [cnt EXCEPT !.shows = @ + 1]
    /\ pc' = next

\* The key codes the blocking cv2.waitKey(0) of cell c can return: those of
\* the loops, and in the display cell 's' and 's' with a modifier bit above
\* the low 8.
WaitKeys(c) == IF c = "display" THEN Keys \cup { 115, 371 } ELSE Keys

\* cv2.waitKey(0) of cell c: the wait returns when a key is pressed.
WaitKey0(c, next) ==
    /\ At(c, "wait")
    /\ \E k \in WaitKeys(c) : key' = k
    /\ waitMs' = 0
    /\ cnt' = [cnt EXCEPT !.polls = @ + 1]
    /\ pc' = next
    /\ UNCHANGED << cell, capSt, outSt, cam, ret, frame, gray_frame,
                    gray_bgr, frame_count, iter, windows, msgs, exitWay,
                    reported >>
    /\ UNCHANGED imgvars

\* cv2.destroyAllWindows() of cell c
CloseWindows(c, next) ==
    /\ At(c, "destroy")
    /\ DestroyAllWindows(next)
    /\ UNCHANGED << cell, capSt, outSt, cam, ret, frame, gray_frame,
                    gray_bgr, key, frame_count, iter, waitMs, msgs, exitWay,
                    reported >>
    /\ UNCHANGED imgvars

\* ---- imports (first cell of the second notebook)
\* import cv2
ImportsImport == Import("imports", "import", 1, "import2")

\* from PIL import Image
ImportsImage == Import("imports", "import2", 2, "report")

\* import numpy as np; the two prints
ImportsReport == Report("imports", "report", "opencv imported", "done")

\* ---- setup (first cell of the third notebook)
\* import cv2
SetupImport == Import("setup", "import", 1, "report")

\* import numpy as np; import os; the prints of the versions, os.makedirs of
\* the output directory, the print
SetupReport == Report("setup", "report", "setup completed", "done")

\* ---- BGR to RGB load cell
\* image_path = '../assets/input-images/image1.png'
LoadBgrPath ==
    /\ At("loadbgr", "path")
    /\ image_path' = Image1
    /\ pc' = "imread"
    /\ UNCHANGED camvars_but_pc
    /\ UNCHANGED << session, runs, disk, imported, image_bgr, image_rgb,
                    img_cv, img_gray, img_color, dsize_fixed, resized_fixed,
                    resized_scaled, resized_fx, img, saved >>

\* image_bgr = cv2.imread(image_path)
LoadBgrImread ==
    /\ At("loadbgr", "imread")
    /\ IF "cv2" \in imported
         THEN /\ image_bgr' = disk
              /\ pc' = "convert"
              /\ exitWay' = exitWay
         ELSE /\ Raise("NameError")
              /\ image_bgr' = image_bgr
    /\ UNCHANGED << cell, capSt, outSt, cam, ret, frame, gray_frame,
                    gray_bgr, key, frame_count, cnt, iter, waitMs, windows,
                    msgs, reported >>
    /\ UNCHANGED << session, runs, disk, imported, image_path, image_rgb,
                    img_cv, img_gray, img_color, dsize_fixed, resized_fixed,
                    resized_scaled, resized_fx, img, saved >>

\* if image_bgr is not None: image_rgb = cv2.cvtColor(image_bgr,
\* cv2.COLOR_BGR2RGB)  else: print
LoadBgrConvert ==
    /\ At("loadbgr", "convert")
    /\ IF image_bgr # NoFrame
         THEN /\ image_rgb' = BGR2RGB(image_bgr)
              /\ msgs' = msgs
              /\ pc' = "report"
         ELSE /\ image_rgb' = image_rgb
              /\ msgs' = msgs \cup { "could not load image" }
              /\ pc' = "done"
    /\ UNCHANGED << cell, capSt, outSt, cam, ret, frame, gray_frame,
                    gray_bgr, key, frame_count, cnt, iter, waitMs, windows,
                    exitWay, reported >>
    /\ UNCHANGED << session, runs, disk, imported, image_path, image_bgr,
                    img_cv, img_gray, img_color, dsize_fixed, resized_fixed,
                    resized_scaled, resized_fx, img, saved >>

\* the two prints of the loaded branch
LoadBgrReport == Report("loadbgr", "report", "bgr to rgb conversion completed", "done")

\* ---- BGR / RGB display cell
\* if image_bgr is not None: cv2.imshow('BGR Format (OpenCV Default)',
\* image_bgr).  Where no cell has assigned image_bgr the test raises
\* NameError.
ShowBgrImshow ==
    /\ At("showrgb", "bgr")
    /\ IF image_bgr = Unbound
         THEN /\ Raise("NameError")
              /\ UNCHANGED << windows, cnt >>
         ELSE IF image_bgr # NoFrame
         THEN /\ ShowWindow("BGR Format (OpenCV Default)", "rgb")
              /\ exitWay' = exitWay
         ELSE /\ pc' = "done"
              /\ UNCHANGED << windows, cnt, exitWay >>
    /\ UNCHANGED << cell, capSt, outSt, cam, ret, frame, gray_frame,
                    gray_bgr, key, frame_count, iter, waitMs, msgs, reported >>
    /\ UNCHANGED imgvars

\* cv2.imshow('RGB Format (Standard)', image_rgb): NameError where the load
\* cell assigned image_bgr and did not reach the conversion.
ShowRgbImshow ==
    /\ At("showrgb", "rgb")
    /\ IF image_rgb = Unbound
         THEN /\ Raise("NameError")
              /\ UNCHANGED << windows, cnt >>
         ELSE /\ ShowWindow("RGB Format (Standard)", "prompt")
              /\ exitWay' = exitWay
    /\ UNCHANGED << cell, capSt, outSt, cam, ret, frame, gray_frame,
                    gray_bgr, key, frame_count, iter, waitMs, msgs, reported >>
    /\ UNCHANGED imgvars

\* print("Press any key to close windows...")
ShowBgrRgbPrompt == Report("showrgb", "prompt", "press any key to close windows", "wait")

\* cv2.waitKey(0)
ShowBgrRgbWait == WaitKey0("showrgb", "destroy")

\* cv2.destroyAllWindows()
ShowBgrRgbDestroy == CloseWindows("showrgb", "closed")

\* print("Display windows closed")
ShowBgrRgbClosed == Report("showrgb", "closed", "display windows closed", "done")

\* ---- image I/O cell
\* image_path = '../assets/input-images/image1.png'
LoadCvPath ==
    /\ At("loadcv", "path")
    /\ image_path' = Image1
    /\ pc' = "imread"
    /\ UNCHANGED camvars_but_pc
    /\ UNCHANGED << session, runs, disk, imported, image_bgr, image_rgb,
                    img_cv, img_gray, img_color, dsize_fixed, resized_fixed,
                    resized_scaled, resized_fx, img, saved >>

\* img_cv = cv2.imread(image_path)
LoadCvImread ==
    /\ At("loadcv", "imread")
    /\ IF "cv2" \in imported
         THEN /\ img_cv' = disk
              /\ pc' = "save"
              /\ exitWay' = exitWay
         ELSE /\ Raise("NameError")
              /\ img_cv' = img_cv
    /\ UNCHANGED << cell, capSt, outSt, cam, ret, frame, gray_frame,
                    gray_bgr, key, frame_count, cnt, iter, waitMs, windows,
                    msgs, reported >>
    /\ UNCHANGED << session, runs, disk, imported, image_path, image_bgr,
                    image_rgb, img_gray, img_color, dsize_fixed,
                    resized_fixed, resized_scaled, resized_fx, img, saved >>

\* if img_cv is not None: Method 1, cv2.imwrite to the output directory
\* (which returns False and raises nothing where the directory does not
\* exist) between two prints;  else: print
LoadCvSave ==
    /\ At("loadcv", "save")
    /\ IF img_cv # NoFrame
         THEN /\ msgs' = msgs \cup { "saved with cv2.imwrite" }
              /\ pc' = "method2"
         ELSE /\ msgs' = msgs \cup { "could not load image" }
              /\ pc' = "done"
    /\ UNCHANGED << cell, capSt, outSt, cam, ret, frame, gray_frame,
                    gray_bgr, key, frame_count, cnt, iter, waitMs, windows,
                    exitWay, reported >>
    /\ UNCHANGED imgvars

\* print("=== Method 2: PIL Save without conversion (Incorrect colors) ===")
LoadCvMethod2 == Report("loadcv", "method2", "method 2", "pil")

\* Methods 2 and 3: Image.fromarray(img_cv), NameError where the kernel has
\* not executed from PIL import Image; .save(...) into the output directory,
\* which no cell of the notebook creates: the first save raises
\* FileNotFoundError where it does not exist; else both are made and the
\* shape is printed.
LoadCvPil ==
    /\ At("loadcv", "pil")
    /\ IF "Image" \notin imported
         THEN /\ Raise("NameError")
              /\ msgs' = msgs
         ELSE \E directory \in BOOLEAN :
                IF directory
                  THEN /\ msgs' = msgs \cup { "saved with PIL" }
                       /\ pc' = "done"
                       /\ exitWay' = exitWay
                  ELSE /\ Raise("FileNotFoundError")
                       /\ msgs' = msgs
    /\ UNCHANGED << cell, capSt, outSt, cam, ret, frame, gray_frame,
                    gray_bgr, key, frame_count, cnt, iter, waitMs, windows,
                    reported >>
    /\ UNCHANGED imgvars

\* ---- grayscale conversion cell
\* if img_cv is not None: img_gray = cv2.cvtColor(img_cv, cv2.COLOR_BGR2GRAY)
\* else: print.  Where no cell has assigned img_cv the test raises NameError.
GrayConvert ==
    /\ At("gray", "convert")
    /\ IF img_cv = Unbound
         THEN /\ Raise("NameError")
              /\ UNCHANGED << img_gray, msgs >>
         ELSE IF img_cv # NoFrame
         THEN /\ img_gray' = BGR2GRAY(img_cv)
              /\ pc' = "report"
              /\ UNCHANGED << msgs, exitWay >>
         ELSE /\ msgs' = msgs \cup { "no image loaded for grayscale conversion" }
              /\ pc' = "done"
              /\ UNCHANGED << img_gray, exitWay >>
    /\ UNCHANGED << cell, capSt, outSt, cam, ret, frame, gray_frame,
                    gray_bgr, key, frame_count, cnt, iter, waitMs, windows,
                    reported >>
    /\ UNCHANGED << session, runs, disk, imported, image_path, image_bgr,
                    image_rgb, img_cv, img_color, dsize_fixed, resized_fixed,
                    resized_scaled, resized_fx, img, saved >>

\* the prints of the two shapes
GrayReport == Report("gray", "report", "original and grayscale shape", "imshow")

\* cv2.imshow('Grayscale Image', img_gray)
GrayImshow ==
    /\ At("gray", "imshow")
    /\ ShowWindow("Grayscale Image", "wait")
    /\ UNCHANGED << cell, capSt, outSt, cam, ret, frame, gray_frame,
                    gray_bgr, key, frame_count, iter, waitMs, msgs, exitWay,
                    reported >>
    /\ UNCHANGED imgvars

\* cv2.waitKey(0)
GrayWait == WaitKey0("gray", "destroy")

\* cv2.destroyAllWindows()
GrayDestroy == CloseWindows("gray", "saved")

\* cv2.imwrite of img_gray; print
GraySaved == Report("gray", "saved", "grayscale conversion completed and saved", "done")

\* ---- HSV conversion cell
\* image_path = '../assets/input-images/image5.jpg'
HsvPath ==
    /\ At("hsv", "path")
    /\ image_path' = "../assets/input-images/image5.jpg"
    /\ pc' = "imread"
    /\ UNCHANGED camvars_but_pc
    /\ UNCHANGED << session, runs, disk, imported, image_bgr, image_rgb,
                    img_cv, img_gray, img_color, dsize_fixed, resized_fixed,
                    resized_scaled, resized_fx, img, saved >>

\* img_bgr = cv2.imread(image_path); if it is not None: the conversion to HSV
\* and the prints of the shapes  else: print.  No other cell reads img_bgr or
\* img_hsv: of this file the model keeps whether it loads, of the cell its
\* windows and messages.
HsvImread ==
    /\ At("hsv", "imread")
    /\ IF "cv2" \in imported
         THEN /\ \E loaded \in BOOLEAN :
                   IF loaded
                     THEN /\ msgs' = msgs \cup { "bgr and hsv shape" }
                          /\ pc' = "imshow"
                     ELSE /\ msgs' = msgs \cup { "could not load image for hsv conversion" }
                          /\ pc' = "done"
              /\ exitWay' = exitWay
         ELSE /\ Raise("NameError")
              /\ msgs' = msgs
    /\ UNCHANGED << cell, capSt, outSt, cam, ret, frame, gray_frame,
                    gray_bgr, key, frame_count, cnt, iter, waitMs, windows,
                    reported >>
    /\ UNCHANGED imgvars

\* cv2.imshow('HSV Color Space', img_hsv)
HsvImshow ==
    /\ At("hsv", "imshow")
    /\ ShowWindow("HSV Color Space", "wait")
    /\ UNCHANGED << cell, capSt, outSt, cam, ret, frame, gray_frame,
                    gray_bgr, key, frame_count, iter, waitMs, msgs, exitWay,
                    reported >>
    /\ UNCHANGED imgvars

\* cv2.waitKey(0)
HsvWait == WaitKey0("hsv", "destroy")

\* cv2.destroyAllWindows()
HsvDestroy == CloseWindows("hsv", "saved")

\* cv2.imwrite of img_hsv; print
HsvSaved == Report("hsv", "saved", "hsv conversion completed and saved", "done")

\* ---- load cell
\* image_path = "../assets/input-images/image1.png"
LoadPath ==
    /\ At("load", "path")
    /\ image_path' = Image1
    /\ pc' = "imgray"
    /\ UNCHANGED camvars_but_pc
    /\ UNCHANGED << session, runs, disk, imported, image_bgr, image_rgb,
                    img_cv, img_gray, img_color, dsize_fixed, resized_fixed,
                    resized_scaled, resized_fx, img, saved >>

\* img_gray = cv2.imread(image_path, cv2.IMREAD_GRAYSCALE): None, or the
\* height and width of the image without channel axis
LoadGray ==
    /\ At("load", "imgray")
    /\ IF "cv2" \in imported
         THEN /\ img_gray' = IF disk = NoFrame THEN NoFrame
                               ELSE [shape |-> << Height(disk), Width(disk) >>,
                                     px |-> << >>]
              /\ pc' = "report"
              /\ exitWay' = exitWay
         ELSE /\ Raise("NameError")
              /\ img_gray' = img_gray
    /\ UNCHANGED << cell, capSt, outSt, cam, ret, frame, gray_frame,
                    gray_bgr, key, frame_count, cnt, iter, waitMs, windows,
                    msgs, reported >>
    /\ UNCHANGED << session, runs, disk, imported, image_path, image_bgr,
                    image_rgb, img_cv, img_color, dsize_fixed, resized_fixed,
                    resized_scaled, resized_fx, img, saved >>

\* if img_gray is not None: the prints of shape, type and values  else: print
LoadGrayReport ==
    /\ At("load", "report")
    /\ msgs' = msgs \cup { IF img_gray # NoFrame THEN "image loaded successfully"
                                                ELSE "failed to load image" }
    /\ pc' = "imcolor"
    /\ UNCHANGED << cell, capSt, outSt, cam, ret, frame, gray_frame,
                    gray_bgr, key, frame_count, cnt, iter, waitMs, windows,
                    exitWay, reported >>
    /\ UNCHANGED imgvars

\* img_color = cv2.imread(image_path, cv2.IMREAD_COLOR), of the same file
LoadColor ==
    /\ At("load", "imcolor")
    /\ img_color' = disk
    /\ pc' = "report2"
    /\ UNCHANGED camvars_but_pc
    /\ UNCHANGED << session, runs, disk, imported, image_path, image_bgr,
                    image_rgb, img_cv, img_gray, dsize_fixed, resized_fixed,
                    resized_scaled, resized_fx, img, saved >>

\* if img_color is not None: print of its shape  else: print
LoadColorReport ==
    /\ At("load", "report2")
    /\ msgs' = msgs \cup { IF img_color # NoFrame THEN "color image shape"
                                                 ELSE "failed to load color image" }
    /\ pc' = "done"
    /\ UNCHANGED << cell, capSt, outSt, cam, ret, frame, gray_frame,
                    gray_bgr, key, frame_count, cnt, iter, waitMs, windows,
                    exitWay, reported >>
    /\ UNCHANGED imgvars

\* ---- resize cell
\* int(n * f) for a size n and a factor f = <<numerator, denominator>>
ScaleInt(n, f) == (n * f[1]) \div f[2]

\* saturate_cast<int> of n * f, the size cv2.resize computes from fx / fy:
\* the nearest integer, the even one of two equally near.
ScaleRound(n, f) ==
    LET q == (n * f[1]) \div f[2]
        r == (n * f[1]) % f[2]
    IN  IF 2 * r < f[2] THEN q
        ELSE IF 2 * r > f[2] THEN q + 1
        ELSE IF q % 2 = 0 THEN q ELSE q + 1

\* if img_color is not None: original_height, original_width =
\* img_color.shape[:2]; print  else: print.  Where no cell has assigned
\* img_color the test raises NameError.
ResizeMeasure ==
    /\ At("resize", "measure")
    /\ IF img_color = Unbound
         THEN /\ Raise("NameError")
              /\ msgs' = msgs
         ELSE IF img_color # NoFrame
         THEN /\ msgs' = msgs \cup { "original size" }
              /\ pc' = "fixed"
              /\ exitWay' = exitWay
         ELSE /\ msgs' = msgs \cup { "no image available for resizing" }
              /\ pc' = "done"
              /\ exitWay' = exitWay
    /\ UNCHANGED << cell, capSt, outSt, cam, ret, frame, gray_frame,
                    gray_bgr, key, frame_count, cnt, iter, waitMs, windows,
                    reported >>
    /\ UNCHANGED imgvars

\* Method 1: resized_fixed = cv2.resize(img_color, (300, 300)), the explicit
\* target size drawn from Targets
ResizeFixed ==
    /\ At("resize", "fixed")
    /\ \E d \in Targets :
         /\ dsize_fixed' = d
         /\ resized_fixed' = ResizeShape(img_color.shape, d)
    /\ pc' = "fixedmsg"
    /\ UNCHANGED camvars_but_pc
    /\ UNCHANGED << session, runs, disk, imported, image_path, image_bgr,
                    image_rgb, img_cv, img_gray, img_color, resized_scaled,
                    resized_fx, img, saved >>

\* the print of the size of resized_fixed
ResizeFixedReport == Report("resize", "fixedmsg", "fixed resize", "scaled")

\* Method 2: new_width = int(original_width * 0.5), new_height likewise;
\* resized_scaled = cv2.resize(img_color, (new_width, new_height)).
\* cv2.resize raises on an empty target size.
ResizeScaled ==
    /\ At("resize", "scaled")
    /\ LET nw == ScaleInt(Width(img_color), << 1, 2 >>)
           nh == ScaleInt(Height(img_color), << 1, 2 >>)
       IN  IF nw > 0 /\ nh > 0
             THEN /\ resized_scaled' = ResizeShape(img_color.shape, << nw, nh >>)
                  /\ pc' = "scaledmsg"
                  /\ exitWay' = exitWay
             ELSE /\ Raise("cv2.error")
                  /\ resized_scaled' = resized_scaled
    /\ UNCHANGED << cell, capSt, outSt, cam, ret, frame, gray_frame,
                    gray_bgr, key, frame_count, cnt, iter, waitMs, windows,
                    msgs, reported >>
    /\ UNCHANGED << session, runs, disk, imported, image_path, image_bgr,
                    image_rgb, img_cv, img_gray, img_color, dsize_fixed,
                    resized_fixed, resized_fx, img, saved >>

\* the print of the size of resized_scaled
ResizeScaledReport == Report("resize", "scaledmsg", "scaled resize", "fx")

\* Method 3: resized_fx = cv2.resize(img_color, None, fx=0.75, fy=0.75, ...)
ResizeFx ==
    /\ At("resize", "fx")
    /\ resized_fx' = ResizeShape(img_color.shape,
                                 << ScaleRound(Width(img_color), << 3, 4 >>),
                                    ScaleRound(Height(img_color), << 3, 4 >>) >>)
    /\ pc' = "fxmsg"
    /\ UNCHANGED camvars_but_pc
    /\ UNCHANGED << session, runs, disk, imported, image_path, image_bgr,
                    image_rgb, img_cv, img_gray, img_color, dsize_fixed,
                    resized_fixed, resized_scaled, img, saved >>

\* the print of the size of resized_fx
ResizeFxReport == Report("resize", "fxmsg", "fx/fy resize", "show1")

\* cv2.imshow("Original Image", img_color)
ResizeShowOriginal ==
    /\ At("resize", "show1")
    /\ ShowWindow("Original Image", "show2")
    /\ UNCHANGED << cell, capSt, outSt, cam, ret, frame, gray_frame,
                    gray_bgr, key, frame_count, iter, waitMs, msgs, exitWay,
                    reported >>
    /\ UNCHANGED imgvars

\* cv2.imshow("Resized  Image (300x300)", resized_fixed)
ResizeShowFixed ==
    /\ At("resize", "show2")
    /\ ShowWindow("Resized  Image (300x300)", "show3")
    /\ UNCHANGED << cell, capSt, outSt, cam, ret, frame, gray_frame,
                    gray_bgr, key, frame_count, iter, waitMs, msgs, exitWay,
                    reported >>
    /\ UNCHANGED imgvars

\* cv2.imshow("Scaled   Image (50%)", resized_scaled)
ResizeShowScaled ==
    /\ At("resize", "show3")
    /\ ShowWindow("Scaled   Image (50%)", "show4")
    /\ UNCHANGED << cell, capSt, outSt, cam, ret, frame, gray_frame,
                    gray_bgr, key, frame_count, iter, waitMs, msgs, exitWay,
                    reported >>
    /\ UNCHANGED imgvars

\* cv2.imshow("FX/FY    Image (75%)", resized_fx)
ResizeShowFx ==
    /\ At("resize", "show4")
    /\ ShowWindow("FX/FY    Image (75%)", "prompt")
    /\ UNCHANGED << cell, capSt, outSt, cam, ret, frame, gray_frame,
                    gray_bgr, key, frame_count, iter, waitMs, msgs, exitWay,
                    reported >>
    /\ UNCHANGED imgvars

\* print("Press any key to close all windows...")
ResizePrompt == Report("resize", "prompt", "press any key to close all windows", "wait")

\* cv2.waitKey(0)
ResizeWait == WaitKey0("resize", "destroy")

\* cv2.destroyAllWindows()
ResizeDestroy == CloseWindows("resize", "saved")

\* the three cv2.imwrite calls; print
ResizeSaved == Report("resize", "saved", "resized images saved", "done")

\* ---------------------------------------------------------------- display cell
\* img = cv2.imread(image_path): image_path is assigned by the load cell;
\* where that cell has not been run, or import cv2 has not, the statement
\* raises NameError.
DisplayImread ==
    /\ At("display", "imread")
    /\ IF "cv2" \notin imported \/ image_path = ""
         THEN /\ Raise("NameError")
              /\ img' = img
         ELSE /\ img' = disk
              /\ pc' = "imshow"
              /\ exitWay' = exitWay
    /\ UNCHANGED << cell, capSt, outSt, cam, ret, frame, gray_frame,
                    gray_bgr, key, frame_count, cnt, iter, waitMs, windows,
                    msgs, reported >>
    /\ UNCHANGED << session, runs, disk, imported, image_path, image_bgr,
                    image_rgb, img_cv, img_gray, img_color, dsize_fixed,
                    resized_fixed, resized_scaled, resized_fx, saved >>

\* cv2.imshow("image", img): cv2 raises on None, which ends the cell.
DisplayImshow ==
    /\ At("display", "imshow")
    /\ IF img # NoFrame
         THEN /\ ShowWindow("image", "wait")
              /\ exitWay' = exitWay
         ELSE /\ Raise("cv2.error")
              /\ UNCHANGED << windows, cnt >>
    /\ UNCHANGED << cell, capSt, outSt, cam, ret, frame, gray_frame,
                    gray_bgr, key, frame_count, iter, waitMs, msgs, reported >>
    /\ UNCHANGED imgvars

\* key = cv2.waitKey(0) & 0xFF
DisplayWaitKey == WaitKey0("display", "branch")

\* KeyBranch with the saving branch taken on every key but ESC.
KeyBranch_saveUnlessEsc(k) ==
    IF k = 27 THEN "destroy" ELSE "imwrite"

\* if key == 27: ... elif key == ord('s'): ... else: ...  The statement the
\* masked key code k leads to.
KeyBranch(k) ==
    IF k = 27 THEN "destroy"
    ELSE IF k = 115 THEN "imwrite"
    ELSE "print"

DisplayBranch ==
    /\ At("display", "branch")
    /\ pc' = KeyBranch(Mask8(key))
    /\ UNCHANGED camvars_but_pc
    /\ UNCHANGED imgvars

\* cv2.imwrite(".../saved_image.jpg", img)
DisplayImwrite ==
    /\ At("display", "imwrite")
    /\ saved' = Append(saved, img)
    /\ pc' = "destroy"
    /\ UNCHANGED camvars_but_pc
    /\ UNCHANGED << session, runs, disk, imported, image_path, image_bgr,
                    image_rgb, img_cv, img_gray, img_color, dsize_fixed,
                    resized_fixed, resized_scaled, resized_fx, img >>

\* print(f"Key '{chr(key)}' pressed - Closing windows")
DisplayPrint == Report("display", "print", "key pressed - closing windows", "destroy")

\* cv2.destroyAllWindows(), the last statement of each of the three branches
DisplayDestroy == CloseWindows("display", "done")

\* ---------------------------------------------------------------- interruptions
\* An interruption (KeyboardInterrupt) of a camera cell outside its loop: in
\* the statements before the loop, in those after it (the release of the
\* handles, the closing of the windows, the final prints), in the except
\* clause of the recording cell, and in the cell that checks the camera.  No
\* try statement is in force there: the exception ends the cell where it is,
\* with the handles and windows as they are.  It is raised before the
\* statement the cell is at, which is also as the statement before it
\* returns, or as the call of that statement returns: cv2.VideoCapture(0) has
\* then opened the device or failed to, cv2.VideoWriter(...) has made its
\* writer, and the result is not assigned: cap and out are the handles they
\* were.
CameraInterrupt ==
    /\ cell \in CameraCells
    /\ pc \notin LoopPcs(cell) \cup { "idle", "done", "aborted" }
    /\ \/ cnt' = cnt
       \/ /\ pc = "open" /\ "cv2" \in imported
          /\ \E ok \in CameraOpens :
               cnt' = [cnt EXCEPT !.capOpened = ok, !.capOpens = @ + 1]
       \/ /\ pc = "writer"
          /\ cnt' = [cnt EXCEPT !.writerOpens = @ + 1]
    /\ exitWay' = "interrupt"
    /\ pc' = "aborted"
    /\ UNCHANGED << cell, capSt, outSt, cam, ret, frame, gray_frame,
                    gray_bgr, key, frame_count, iter, waitMs, windows, msgs,
                    reported >>
    /\ UNCHANGED imgvars

\* An interruption of a cell that blocks in cv2.waitKey(0): no image cell has
\* a handler, the exception ends the cell.  It is raised while the call
\* waits, or as the call returns its key: in both cases the windows stay
\* open and no statement after the wait is executed.  The statements after
\* the wait are steps of their own: an interruption after
\* cv2.destroyAllWindows() is StatementInterrupt, one raised as the final
\* print returns is LateInterrupt.
WaitInterrupt ==
    /\ cell \in { "showrgb", "gray", "hsv", "resize", "display" } /\ pc = "wait"
    /\ \/ UNCHANGED << key, waitMs, cnt >>
       \/ /\ \E k \in WaitKeys(cell) : key' = k
          /\ waitMs' = 0
          /\ cnt' = [cnt EXCEPT !.polls = @ + 1]
    /\ exitWay' = "interrupt"
    /\ pc' = "aborted"
    /\ UNCHANGED << cell, capSt, outSt, cam, ret, frame, gray_frame,
                    gray_bgr, frame_count, iter, windows, msgs, reported >>
    /\ UNCHANGED imgvars

\* An interruption before a statement of an image cell or of an import cell,
\* which is also an interruption raised as the statement before it returns:
\* the cell ends there.
StatementInterrupt ==
    /\ cell \in ImageCells \cup SetupCells
    /\ pc \notin { "idle", "done", "aborted", "wait" }
    /\ exitWay' = "interrupt"
    /\ pc' = "aborted"
    /\ UNCHANGED << cell, capSt, outSt, cam, ret, frame, gray_frame,
                    gray_bgr, key, frame_count, cnt, iter, waitMs, windows,
                    msgs, reported >>
    /\ UNCHANGED imgvars

\* An interruption raised as the last statement of a cell returns (the final
\* print, cv2.destroyAllWindows() in the display and overlay cells,
\* cap.release() in the check cell): the statement has had its effect and the
\* cell ends by the exception.
LateInterrupt ==
    /\ pc = "done"
    /\ exitWay' = "interrupt"
    /\ pc' = "aborted"
    /\ UNCHANGED << cell, capSt, outSt, cam, ret, frame, gray_frame,
                    gray_bgr, key, frame_count, cnt, iter, waitMs, windows,
                    msgs, reported >>
    /\ UNCHANGED imgvars

\* ---------------------------------------------------------------- specification
\* The statements of the four cells that open the camera.
CellSteps ==
    \/ CheckImport \/ CheckImportDt \/ CheckReport \/ CheckOpen \/ CheckBranch
    \/ CheckRelease
    \/ ConfigAnnounce \/ ConfigOpen \/ ConfigBranch \/ ConfigSetWidth
    \/ ConfigSetHeight \/ ConfigPrompt \/ ConfigRead \/ ConfigTest \/ ConfigShow
    \/ ConfigPoll \/ ConfigRelease \/ ConfigDestroy \/ ConfigFinal
    \/ OverlayOpen \/ OverlayLoop \/ OverlayRead \/ OverlayTest \/ OverlayPutText
    \/ OverlayShow \/ OverlayPoll \/ OverlayRelease \/ OverlayDestroy
    \/ RecAnnounce \/ RecOpen \/ RecBranch \/ RecProps \/ RecWriter
    \/ RecWriterReport \/ RecStart \/ RecZero \/ RecLoop \/ RecRead \/ RecTest
    \/ RecGray \/ RecGrayBgr \/ RecWrite \/ RecShowGray \/ RecShowOriginal
    \/ RecProgress \/ RecPoll \/ RecRelease \/ RecOutRelease \/ RecDestroy
    \/ RecSummary \/ RecTotal \/ RecFinal

\* The statements of the import cells of the second and third notebook and
\* of the image cells.
ImageSteps ==
    \/ ImportsImport \/ ImportsImage \/ ImportsReport \/ SetupImport \/ SetupReport
    \/ LoadBgrPath \/ LoadBgrImread \/ LoadBgrConvert \/ LoadBgrReport
    \/ ShowBgrImshow \/ ShowRgbImshow \/ ShowBgrRgbPrompt \/ ShowBgrRgbWait
    \/ ShowBgrRgbDestroy \/ ShowBgrRgbClosed
    \/ LoadCvPath \/ LoadCvImread \/ LoadCvSave \/ LoadCvMethod2 \/ LoadCvPil
    \/ GrayConvert \/ GrayReport \/ GrayImshow \/ GrayWait \/ GrayDestroy
    \/ GraySaved
    \/ HsvPath \/ HsvImread \/ HsvImshow \/ HsvWait \/ HsvDestroy \/ HsvSaved
    \/ LoadPath \/ LoadGray \/ LoadGrayReport \/ LoadColor \/ LoadColorReport
    \/ ResizeMeasure \/ ResizeFixed \/ ResizeFixedReport \/ ResizeScaled
    \/ ResizeScaledReport \/ ResizeFx \/ ResizeFxReport
    \/ ResizeShowOriginal \/ ResizeShowFixed \/ ResizeShowScaled \/ ResizeShowFx
    \/ ResizePrompt \/ ResizeWait \/ ResizeDestroy \/ ResizeSaved
    \/ DisplayImread \/ DisplayImshow \/ DisplayWaitKey
    \/ DisplayBranch \/ DisplayImwrite \/ DisplayPrint \/ DisplayDestroy

\* The running cell executes its next statement.
Statements == CellSteps \/ ImageSteps

\* The interruptions (KeyboardInterrupt): inside a capture loop, in the
\* recording cell followed by its except clause; in a camera cell outside its
\* loop; in an image cell at its blocking wait and before each of its
\* statements; in any cell as its last statement returns.  The user interrupts
\* any cell, in the session "long" the recording cell alone.
Interrupts ==
    /\ session = "long" => cell = "rec"
    /\ \/ ConfigInterrupt \/ OverlayInterrupt \/ RecInterrupt \/ RecExcept
       \/ CameraInterrupt \/ WaitInterrupt \/ StatementInterrupt \/ LateInterrupt

\* A cell of the notebook is started, the running cell executes its next
\* statement, or it is interrupted.
Next ==
    \/ \E c \in CellsOf(Notebook(session)) : StartCell(c)
    \/ Statements
    \/ Interrupts

Spec == Init /\ [][Next]_vars

\* The kernel has executed the import statements of its notebook.
ImportsDone ==
    \A c \in ImportCells \cap CellsOf(Notebook(session)) :
        \A n \in 1..Len(Imports(c)) : Imports(c)[n] \in imported

\* The executions in which the cells are run after the imports and no
\* interruption arrives: a cell is started in a kernel that has executed the
\* imports of its notebook, or that executes them in this cell; every camera
\* cell runs to its last statement, a loop ends by its stop key or by a
\* failed pull.
Completed ==
    \/ \E c \in CellsOf(Notebook(session)) :
          (ImportsDone \/ c \in ImportCells) /\ StartCell(c)
    \/ Statements
SpecCompleted == Init /\ [][Completed]_vars

\* The cell that holds the imports is run in a fresh kernel.
ImportRun == \E c \in ImportCells : imported = { } /\ StartCell(c)

\* After it one of the loop cells is run, the first such run in the kernel.
FirstRun == \E c \in LoopCells : ImportsDone /\ runs = 0 /\ StartCell(c)

\* One run of a loop cell after the imports, without interruption, the
\* interpreter going on to the next statement (weak fairness): cap.read()
\* returns with a frame or without, cv2.waitKey(1) returns after its delay, no
\* statement waits forever.  The device delivers at most MaxFrames frames: a
\* pull fails at the latest then.
InitOneRun == Init /\ session \in { "camera", "record" }
OneRun == ImportRun \/ FirstRun \/ CellSteps \/ SetupImport \/ SetupReport
SpecFair == InitOneRun /\ [][OneRun]_vars /\ WF_vars(OneRun)

\* ---------------------------------------------------------------- properties
\* The cell run has ended: normally, or by an exception no handler caught.
Ended == pc \in { "done", "aborted" }
\* A run of a loop cell is in progress or has ended.
InRun == pc # "idle" /\ cell \in LoopCells
\* The last pull of this run failed.
PullFailed == InRun /\ cnt.pulls > 0 /\ ~ret

\* C1: in each of the three capture loops, once the device has been opened,
\* every way the loop can end (stop key, failed pull, interruption inside an
\* iteration) is followed by the release of the capture handle, and in the
\* recording loop also of the writer handle: when the cell has ended, the
\* handles are released.
C1_ReleasedOnEveryExit ==
    (InRun /\ Ended /\ cnt.capOpened)
        => /\ capSt = "released"
           /\ cell = "rec" => outSt = "released"

\* C2: after a failed pull the loop is left in that same iteration: no
\* display update, no append, no poll and no further pull follows in the run.
C2_FailedPullEndsLoop ==
    [][ (PullFailed /\ ~Ended)
          => /\ cnt'.pulls = cnt.pulls
             /\ cnt'.shows = cnt.shows
             /\ cnt'.writes = cnt.writes
             /\ cnt'.polls = cnt.polls
             /\ pc' \notin LoopPcs(cell) ]_vars

\* A pull that failed after one that succeeded, the loop left and the cleanup
\* under way.
C2_Witness ==
    /\ cell = "rec" /\ pc = "destroy"
    /\ cnt.pulls = 2 /\ cnt.okPulls = 1 /\ ~ret /\ exitWay = "eof"

\* C3: when the first pull after a successful open fails, the run has no
\* display update and no append, the frame count stays 0 and is reported as 0,
\* and the cell, which goes on to its end, has released every handle.
C3_FirstPullFails ==
    (InRun /\ cnt.capOpened /\ cnt.pulls = 1 /\ ~ret)
        => /\ cnt.shows = 0 /\ cnt.writes = 0 /\ cnt.persisted = 0
           /\ iter.shown = << >> /\ iter.written = << >>
           /\ cell = "rec" => frame_count = 0
           /\ exitWay = "eof" => pc # "aborted"
           /\ (exitWay = "eof" /\ pc = "done")
                 => /\ capSt = "released"
                    /\ cell = "rec" => (outSt = "released" /\ reported = 0)

\* The recording cell ended after its first pull failed.
C3_Witness ==
    /\ cell = "rec" /\ pc = "done" /\ cnt.capOpened
    /\ cnt.pulls = 1 /\ ~ret /\ exitWay = "eof" /\ reported = 0

\* C4 as stated: between one pull and the next there is at most one imshow
\* call and at most one out.write call.
C4_AtMostOneShowAndWrite ==
    /\ Len(iter.shown) <= 1
    /\ Len(iter.written) <= 1

\* C4, amended: between one pull and the next each window is updated at most
\* once, by at most as many imshow calls as the loop has windows (two in the
\* recording loop, one in the other loops), and there is at most one
\* out.write call.
C4_AtMostOncePerWindow ==
    /\ \A i, j \in 1..Len(iter.shown) :
           i # j => iter.shown[i][1] # iter.shown[j][1]
    /\ Len(iter.shown) <= Len(LoopWindows(cell))
    /\ Len(iter.written) <= 1

\* An iteration of the recording loop that has written the frame and updated
\* both windows.
C4_Witness ==
    /\ cell = "rec" /\ pc = "progress"
    /\ Len(iter.shown) = 2 /\ Len(iter.written) = 1

\* The loop of the run has been left.
LoopLeft == InRun /\ pc \in { "except", "release", "outrelease", "destroy", "final",
                             "summary", "total", "done", "aborted" }
\* The windows updated since the last pull, in order.
ShownWindows == [ i \in 1..Len(iter.shown) |-> iter.shown[i][1] ]

C5_Inv ==
    InRun =>
      /\ iter.polls <= 1
      /\ Mask8(-1) = 255
      \* the poll comes after the display and write of its iteration, waits 1 ms
      /\ iter.polls = 1
           => /\ waitMs = 1 /\ ret
              /\ ShownWindows = LoopWindows(cell)
              /\ cell = "rec" => Len(iter.written) = 1
      \* the stop code, and only it, ends the loop at the poll
      /\ (iter.polls = 1 /\ Mask8(key) = StopCode(cell))
           => /\ exitWay \in { "stopkey", "interrupt" }
              /\ LoopLeft
      /\ exitWay = "stopkey"
           => /\ iter.polls = 1 /\ Mask8(key) = StopCode(cell) /\ LoopLeft
      \* any other key: back to the head of the loop, the handle still open
      /\ (iter.polls = 1 /\ Mask8(key) # StopCode(cell) /\ exitWay = "none")
           => /\ pc \in (IF cell = "config" THEN { "read" } ELSE { "loop", "read" })
              /\ capSt = "open"

C5_Step ==
    /\ \* a pull that follows an iteration follows that iteration's poll
       (InRun /\ cnt.pulls > 0 /\ cnt'.pulls = cnt.pulls + 1)
          => (iter.polls = 1 /\ ret /\ Mask8(key) # StopCode(cell))
    /\ \* after the stop key: no pull, display or append
       (exitWay = "stopkey" /\ ~Ended)
          => /\ cnt'.pulls = cnt.pulls /\ cnt'.shows = cnt.shows
             /\ cnt'.writes = cnt.writes /\ cnt'.polls = cnt.polls
    /\ \* from the head of the loop after a poll the next step is the pull
       (InRun /\ iter.polls = 1 /\ pc = "read" /\ pc' # "read")
          => (cnt'.pulls = cnt.pulls + 1 \/ exitWay' = "interrupt")

\* C5: an iteration with a successful pull polls the key once, with a 1 ms
\* wait, after its display and write; a key code whose low 8 bits are the
\* stop code ('q' = 113, ESC = 27 in the recording loop) ends the loop with no
\* further pull, display or append; any other result, -1 (masked 255) among
\* them, leads to the next pull.
C5_PollOncePerIteration == []C5_Inv /\ [][C5_Step]_vars

\* The recording loop polled a key that is no stop code, pulled again, and
\* was then stopped by ESC with a modifier bit set.
C5_Witness ==
    /\ cell = "rec" /\ exitWay = "stopkey" /\ key = 283
    /\ cnt.polls = 2 /\ cnt.pulls = 2 /\ pc = "outrelease"

\* The recording loop of this run has been entered.
RecLoopEntered == cell = "rec" /\ cnt.tries = 1
\* The failure of the writer of this run is reported.
WriterFailed ==
    cell = "rec" /\ pc # "idle" /\ "failed to initialize video writer" \in msgs

\* C6: in the recording cell, when the device opens and the writer does not,
\* the failure is reported and the loop still runs: every pulled frame of a
\* completed iteration is displayed, and the loop ends only by the stop key, a
\* failed pull or an interruption.
C6_WriterFailureKeepsLoop ==
    /\ (RecLoopEntered /\ outSt = "failed") => WriterFailed
    /\ WriterFailed
         => /\ cnt.capOpened /\ cnt.persisted = 0
            /\ pc \in { "progress", "poll" }
                 => iter.shown = << << "Live Feed (Grayscale)", gray_frame >>,
                                    << "Original Feed", frame >> >>
            /\ (pc \in { "loop", "read" } \/ exitWay \in { "stopkey", "eof" })
                 => cnt.shows = 2 * cnt.okPulls
            /\ LoopLeft => exitWay \in { "stopkey", "eof", "interrupt" }
            /\ (LoopLeft /\ exitWay # "interrupt") => cnt.pulls >= 1

\* A run without writer that displayed two frames, stored none and was ended
\* by the stop key.
C6_Witness ==
    /\ WriterFailed /\ pc = "done" /\ exitWay = "stopkey"
    /\ cnt.okPulls = 2 /\ cnt.shows = 4 /\ cnt.writes = 2 /\ cnt.persisted = 0

\* The failure messages of the four cells that open the device.
OpenFailureMsgs ==
    { "no camera detected", "camera not accessible", "could not open camera" }

\* C7: in every cell that opens the device, when the open fails a failure
\* message is reported and the cell makes no pull, no display update and no
\* append, and opens no output stream.
C7_OpenFailureReported ==
    (cell \in CameraCells /\ pc = "done" /\ ~cnt.capOpened)
        => /\ msgs \cap OpenFailureMsgs # { }
           /\ cnt.pulls = 0 /\ cnt.shows = 0 /\ cnt.writes = 0
           /\ cnt.writerOpens = 0

\* The frame the iteration holds is the one just pulled, converted, converted back.
FrameCurrent ==
    /\ InRun
    /\ pc \in { "test", "puttext", "gray", "graybgr", "write", "show", "show2",
                 "progress", "poll" }
GrayCurrent == cell = "rec" /\ pc \in { "graybgr", "write", "show", "show2", "progress", "poll" }
BackCurrent == cell = "rec" /\ pc \in { "write", "show", "show2", "progress", "poll" }

C8_Inv ==
    /\ (FrameCurrent /\ ret)
         => frame.shape = << cam[2], cam[1], 3 >>
    /\ GrayCurrent
         => /\ gray_frame.shape = << Height(frame), Width(frame) >>
            /\ Channels(gray_frame) = 1
    /\ BackCurrent
         => /\ gray_bgr.shape = << Height(frame), Width(frame), 3 >>
            /\ Channels(gray_bgr) = 3
    /\ (InRun /\ ~LoopLeft)
         => /\ \A i \in 1..Len(iter.shown) :
                  LET f == iter.shown[i][2]
                  IN  /\ Height(f) = Height(frame) /\ Width(f) = Width(frame)
                      /\ IF iter.shown[i][1] = "Live Feed (Grayscale)"
                           THEN f = gray_frame /\ f.shape = << Height(frame), Width(frame) >>
                           ELSE Channels(f) = 3
            /\ \A i \in 1..Len(iter.written) :
                  iter.written[i].shape = << Height(frame), Width(frame), 3 >>
    /\ IsFrame(img_gray) => Len(img_gray.shape) = 2 /\ Channels(img_gray) = 1
    /\ IsFrame(image_rgb) => Channels(image_rgb) = 3

C8_Step ==
    /\ (Notebook(session) = 2 /\ img_gray' # img_gray)
         => img_gray'.shape = << Height(img_cv), Width(img_cv) >>
    /\ (Notebook(session) = 3 /\ IsFrame(img_gray'))
         => /\ img_gray'.shape = << Height(disk), Width(disk) >>
            /\ IsFrame(img_color')
                 => img_gray'.shape = << Height(img_color'), Width(img_color') >>
    /\ image_rgb' # image_rgb
         => image_rgb'.shape = image_bgr'.shape

\* C8: the grayscale transform of a pulled or loaded frame keeps height and
\* width and yields one channel, without channel axis; a colour transform, or
\* none, keeps height and width and yields three channels; the recording loop
\* displays the one-channel frame in the grayscale window and appends the
\* three-channel frame.
C8_TransformShapes == []C8_Inv /\ [][C8_Step]_vars

\* An iteration of the recording loop on a frame of height 2 and width 1,
\* displayed in both windows and appended.
C8_Witness ==
    /\ cell = "rec" /\ pc = "poll"
    /\ frame.shape = << 2, 1, 3 >> /\ gray_frame.shape = << 2, 1 >>
    /\ Len(iter.shown) = 2 /\ Len(iter.written) = 1

\* C9: a colour frame converted to grayscale and back to three channels has
\* the height and width of the frame, and equal values in its three channels
\* at every pixel.
C9_RoundTrip ==
    BackCurrent
        => /\ gray_bgr.shape = frame.shape
           /\ \A i \in 1..Height(frame) : \A j \in 1..Width(frame) :
                 /\ gray_bgr.px[i][j][1] = gray_bgr.px[i][j][2]
                 /\ gray_bgr.px[i][j][2] = gray_bgr.px[i][j][3]
                 /\ gray_bgr.px[i][j][1] = gray_frame.px[i][j][1]

\* The round trip of a frame of height 1 and width 2 whose pixels have
\* unequal channels.
C9_Witness ==
    /\ BackCurrent
    /\ frame.shape = << 1, 2, 3 >>
    /\ frame.px[1][1] = << 0, 0, 255 >> /\ frame.px[1][2] = << 252, 242, 242 >>
    /\ gray_bgr.px[1][1] = << 76, 76, 76 >> /\ gray_bgr.px[1][2] = << 243, 243, 243 >>

\* C10: a resize to an explicit target (w, h) yields width w and height h,
\* whatever the size of the source.
C10_ResizeToTarget ==
    resized_fixed # << >>
        => /\ resized_fixed[2] = dsize_fixed[1]
           /\ resized_fixed[1] = dsize_fixed[2]
           /\ resized_fixed = << dsize_fixed[2], dsize_fixed[1], 3 >>

\* The 739 x 486 image of the recorded run resized to (300, 300).
C10_Witness ==
    /\ img_color.shape = << 486, 739, 3 >>
    /\ dsize_fixed = << 300, 300 >>
    /\ resized_fixed = << 300, 300, 3 >>

\* C11: resizing by a scale factor f yields the size (floor(W*f), floor(H*f))
\* on both scale paths of the resize cell: Method 2, which passes int(W*f),
\* int(H*f) as the target (f = 0.5), and Method 3, which passes fx = fy = f
\* (f = 0.75).
C11_ScaleIsFloor ==
    [][ LET w == Width(img_color)
            h == Height(img_color)
        IN  /\ resized_scaled' # resized_scaled
                 => resized_scaled' = << h \div 2, w \div 2, 3 >>
            /\ resized_fx' # resized_fx
                 => resized_fx' = << (3 * h) \div 4, (3 * w) \div 4, 3 >> ]_vars

\* The blocking wait of this run of the display cell has returned.
KeyReturned == cell = "display" /\ cnt.polls = 1

\* C12: in the image display cell, for every key code the blocking wait
\* returns, masked to 0..255: ESC (27) closes the windows without saving, 's'
\* (115) saves the image and then closes the windows, any other key closes
\* the windows; the image is written if and only if the masked code is 115,
\* and the windows are closed exactly once, by the last statement of the
\* branch taken.  The key handler runs to its end unless a KeyboardInterrupt
\* ends the cell: one raised as cv2.destroyAllWindows() returns ends it with
\* the branch done and the windows closed.
C12_DisplayKeyHandler ==
    /\ cell = "display"
         => /\ cnt.polls <= 1 /\ cnt.destroys <= 1 /\ Len(saved) <= 1
            /\ cnt.polls = 0 => (cnt.destroys = 0 /\ saved = << >>)
    /\ KeyReturned
         => /\ waitMs = 0 /\ Mask8(key) \in 0..255
            \* the image is saved only on 's', while its window is still open
            /\ saved # << >> => (Mask8(key) = 115 /\ saved = << img >>)
            /\ pc = "imwrite" => (cnt.destroys = 0 /\ "image" \in windows)
            \* closing the windows ends the cell: the image is saved by then on
            \* 's' and only on 's', the message printed on the other keys but ESC
            /\ cnt.destroys = 1
                 => /\ Ended /\ windows = { }
                    /\ Len(saved) = (IF Mask8(key) = 115 THEN 1 ELSE 0)
                    /\ ("key pressed - closing windows" \in msgs)
                          <=> Mask8(key) \notin { 27, 115 }
            \* the cell ends with the windows closed once
            /\ exitWay # "interrupt" => pc # "aborted"
            /\ pc = "done" => cnt.destroys = 1

\* The display cell, run after the load cell, ended after 's' with a modifier
\* bit: the image saved, the windows closed once.
C12_Witness ==
    /\ cell = "display" /\ pc = "done" /\ key = 371 /\ image_path = Image1
    /\ saved = << img >> /\ IsFrame(img) /\ cnt.destroys = 1 /\ windows = { }

\* C13: in the recording loop each successfully read frame is processed
\* (converted to grayscale), then displayed, then written to the output file,
\* in that order; the resources are cleaned up only after the loop has ended.
C13_ProcessDisplayWrite ==
    cell = "rec"
      => /\ \* displayed after processed: what is shown is the converted frame
            iter.shown # << >>
              => /\ gray_frame = BGR2GRAY(frame)
                 /\ iter.shown[1] = << "Live Feed (Grayscale)", gray_frame >>
         /\ \* written after displayed
            iter.written # << >>
              => /\ ShownWindows = LoopWindows("rec")
                 /\ iter.written = << GRAY2BGR(gray_frame) >>
         /\ \* no cleanup inside the loop
            pc \in LoopPcs("rec")
              => /\ capSt = "open" /\ outSt \in { "open", "failed" }
                 /\ cnt.destroys = 0

C14_Inv ==
    \* an open capture handle is the one the running cell opened: there is at
    \* most one, and none between two cells
    /\ capSt = "open" => (cell \in CameraCells /\ cnt.capOpens = 1 /\ pc \notin { "idle", "done" })
    /\ outSt = "open" => (cell = "rec" /\ cnt.writerOpens = 1 /\ pc \notin { "idle", "done" })
    /\ cnt.capOpens <= 1 /\ cnt.writerOpens <= 1
    \* nothing is left open when a cell completes
    /\ (cell \in CameraCells /\ pc = "done") => (capSt # "open" /\ outSt # "open")
    /\ cell \in CameraCells => pc # "aborted"

C14_Step ==
    \* cap.read(), out.write(), cap.release() and out.release() act on the
    \* handle this run of the cell opened
    /\ cnt'.pulls = cnt.pulls + 1 => (cnt.capOpens = 1 /\ capSt = "open")
    /\ cnt'.writes = cnt.writes + 1 => (cnt.writerOpens = 1 /\ outSt # "released")
    /\ (pc = "release" /\ pc' # pc) => (cnt.capOpens = 1 /\ capSt' = "released")
    /\ (pc = "outrelease" /\ pc' # pc) => (cnt.writerOpens = 1 /\ outSt' = "released")
    \* a capture handle is opened only when no other is open
    /\ cnt'.capOpens = cnt.capOpens + 1 => capSt # "open"

\* C14: across any sequence of runs of the four cells that open the camera,
\* each run to its end (its loop ended by the stop key or a failed pull), a
\* capture handle and a writer handle are pulled from, appended to and
\* released only by the run that opened them, at most one capture handle is
\* open at any time, and none is open when a cell completes.
C14_HandlesOwnedByCell == []C14_Inv /\ [][C14_Step]_vars

\* The recording cell completed its second run in the kernel, on frames: the
\* capture handle and the writer handle it opened are released.
C14_Witness ==
    /\ cell = "rec" /\ pc = "done" /\ runs = 2 /\ cnt.capOpened
    /\ cnt.writerOpens = 1 /\ cnt.okPulls = 2 /\ cnt.persisted = 2
    /\ capSt = "released" /\ outSt = "released"

\* The loop of cell c is running on an opened device.
InLoop(c) == cell = c /\ cnt.capOpened /\ pc \in LoopPcs(c)
\* The run of cell c has released its handles.
Released(c) ==
    /\ cell = c /\ pc \notin LoopPcs(c) /\ pc # "aborted"
    /\ capSt = "released"
    /\ c = "rec" => (outSt = "released" \/ pc = "outrelease")

\* The loop is left only by a failed pull or by the stop code at the poll.
C15_Step ==
    \A c \in LoopCells :
        (InLoop(c) /\ pc' \notin LoopPcs(c))
            => /\ cell' = c /\ pc' = "release"
               /\ \/ pc = "test" /\ ~ret /\ exitWay' = "eof"
                  \/ pc = "poll" /\ Mask8(key') = StopCode(c) /\ exitWay' = "stopkey"

\* C15: every capture loop in which a pull fails or the poll returns the stop
\* code at some time is left and goes on to the state in which its handles
\* are released; the loop is left by one of these two events only: there is no
\* frame limit and no timeout.
C15_LoopTerminates ==
    /\ (\E c \in LoopCells : InLoop(c)) ~> (\E c \in LoopCells : Released(c) /\ pc = "done")
    /\ [][C15_Step]_vars

\* The configuration loop stopped by 'q' after two frames, its handle
\* released.
C15_Witness ==
    /\ cell = "config" /\ pc = "final" /\ exitWay = "stopkey"
    /\ cnt.okPulls = 2 /\ key = 369 /\ capSt = "released"

\* An interruption raised inside the loop of this run of the recording cell
\* has been caught.
RecInterrupted == cell = "rec" /\ pc # "idle" /\ cnt.caught = 1

C16_Inv ==
    RecInterrupted
      => \* caught: the except clause reports it
         /\ pc # "except" => "recording interrupted by user" \in msgs
         \* the cleanup follows, in the order cap, out, windows
         /\ pc \in { "except", "release" }
              => (capSt = "open" /\ outSt # "released" /\ cnt.destroys = 0)
         /\ pc = "outrelease" => (capSt = "released" /\ outSt # "released" /\ cnt.destroys = 0)
         /\ pc = "destroy" => (capSt = "released" /\ outSt = "released" /\ cnt.destroys = 0)
         /\ pc \in { "summary", "total", "final" }
              => (capSt = "released" /\ outSt = "released" /\ cnt.destroys = 1 /\ windows = { })
         \* the cell ends with the handles released, the windows closed and the
         \* summary printed, with the frame count as the interruption left it
         /\ Ended
              => /\ capSt = "released" /\ outSt = "released"
                 /\ cnt.destroys = 1 /\ windows = { }
                 /\ reported = frame_count
                 /\ "video capture completed" \in msgs
         /\ frame_count \in { cnt.okPulls, cnt.okPulls - 1 }

C16_Step ==
    /\ \* the interruption is caught wherever in the loop it arrives
       (cell = "rec" /\ pc \in LoopPcs("rec") /\ exitWay' = "interrupt")
          => (pc' = "except" /\ cnt'.caught = 1)
    /\ \* nothing of the iteration is done after it
       (RecInterrupted /\ ~Ended)
          => /\ cnt'.pulls = cnt.pulls /\ cnt'.shows = cnt.shows
             /\ cnt'.writes = cnt.writes /\ cnt'.persisted = cnt.persisted
             /\ cnt'.polls = cnt.polls /\ cnt'.progress = cnt.progress
             /\ UNCHANGED << frame_count, iter, frame, gray_frame, gray_bgr, key >>

\* C16: in the recording cell a KeyboardInterrupt raised anywhere inside the
\* loop is caught; then the capture handle is released, then the writer
\* handle, then all windows are closed, and the summary is printed with the
\* frame count as it is; the interrupted iteration does nothing after the
\* interruption.
C16_InterruptCleansUp == []C16_Inv /\ [][C16_Step]_vars

\* The recording loop is at the start of an iteration, or has been left.
RecAtBoundary == RecLoopEntered /\ (pc \in { "loop", "read" } \/ LoopLeft)

\* C17 as stated: at the start of every iteration of the recording loop and
\* at loop exit, frame_count is the number of successful pulls so far and the
\* number of out.write calls so far, whether the writer opened or not; the
\* total printed at the end is the number of successful pulls of the run; the
\* progress line has been printed once for each positive multiple of 30 that
\* frame_count has reached.
C17_CountIsPullsAndWrites ==
    /\ RecAtBoundary
         => /\ frame_count = cnt.okPulls
            /\ frame_count = cnt.writes
            /\ cnt.progress = frame_count \div 30
    /\ (RecLoopEntered /\ pc = "done") => reported = cnt.okPulls

C17_Inv ==
    /\ (RecAtBoundary /\ exitWay # "interrupt")
         => /\ frame_count = cnt.okPulls
            /\ frame_count = cnt.writes
            /\ cnt.progress = frame_count \div 30
    /\ (RecLoopEntered /\ exitWay = "interrupt")
         => /\ frame_count \in { cnt.okPulls, cnt.okPulls - 1 }
            /\ cnt.writes \in { frame_count, frame_count - 1 }
            /\ cnt.progress \in { frame_count \div 30, (frame_count - 1) \div 30 }
    /\ (RecLoopEntered /\ pc = "done")
         => /\ reported = frame_count
            /\ exitWay # "interrupt" => reported = cnt.okPulls
    \* the calls are counted whether the writer stores the frames or not
    /\ RecLoopEntered => (cnt.persisted = (IF WriterFailed THEN 0 ELSE cnt.writes))

C17_Step ==
    \* the progress statement prints exactly on the positive multiples of 30
    (cell = "rec" /\ pc = "progress" /\ pc' = "poll")
        => /\ frame_count > 0
           /\ (cnt'.progress = cnt.progress + 1) <=> (frame_count % 30 = 0)
           /\ (cnt'.progress = cnt.progress) <=> (frame_count % 30 # 0)
           /\ ("frames captured" \in msgs') <=> (frame_count >= 30)

\* C17, amended: at the start of every iteration of the recording loop, and
\* when the loop has ended by the stop key or a failed pull, frame_count is
\* the number of successful pulls and of out.write calls so far, whether the
\* writer opened or not, and the total printed is that number; when the loop
\* has ended by an interruption, frame_count is the number of successful pulls
\* or one less, the number of out.write calls or one more, and the total
\* printed is frame_count; the progress statement prints exactly when
\* frame_count is a positive multiple of 30.
C17_CountAtBoundaries == []C17_Inv /\ [][C17_Step]_vars

\* The recorded run: in the kernel that has loaded the image, a recording
\* of 47 frames with the writer open, stopped by ESC, the progress line
\* printed once, at frame 30, and 47 reported.
C17_Witness ==
    /\ RecLoopEntered /\ pc = "done" /\ exitWay = "stopkey" /\ outSt = "released"
    /\ img_color.shape = << 486, 739, 3 >>
    /\ { "video writer initialized", "frames captured", "recording stopped by user",
         "all resources released" } \subseteq msgs
    /\ frame_count = 47 /\ cnt.okPulls = 47 /\ cnt.writes = 47 /\ cnt.persisted = 47
    /\ cnt.progress = 1 /\ reported = 47

\* C18: in the recording cell out.write is issued only on a writer handle
\* that opened and has not been released; when the writer failed to open no
\* append is attempted.
C18_AppendOnlyOnOpenWriter ==
    [][ (cell = "rec" /\ cnt'.writes = cnt.writes + 1) => outSt = "open" ]_vars

C19_Inv ==
    cell \in CameraCells
      => /\ cnt.pulls > 0 => (cnt.capOpened /\ cnt.capOpens = 1)
         \* the open failed: no pull in the run
         /\ (cnt.capOpens = 1 /\ ~cnt.capOpened)
              => /\ cnt.pulls = 0
                 /\ exitWay # "interrupt" => capSt # "open"
         \* the check cell never pulls
         /\ cell = "check" => cnt.pulls = 0

C19_Step ==
    /\ \* cap.read() is called on the handle of this run, open
       cnt'.pulls = cnt.pulls + 1 => (capSt = "open" /\ cnt.capOpened /\ cell \in LoopCells)
    /\ \* after cap.release() the run pulls no more
       (cell \in CameraCells /\ cnt.capOpens = 1 /\ capSt = "released" /\ ~Ended)
          => cnt'.pulls = cnt.pulls

\* C19: in every cell cap.read() is issued only on a capture handle that
\* opened and has not been released: no pull when the open failed, no pull
\* after cap.release().
C19_PullOnlyOnOpenCapture == []C19_Inv /\ [][C19_Step]_vars

\* The configuration loop at its second pull, in the second run of a camera
\* cell in the kernel.
C19_Witness ==
    /\ cell = "config" /\ pc = "test" /\ cnt.pulls = 2 /\ ret
    /\ capSt = "open" /\ runs = 2

====
